---- MODULE Spec2Model ----
(***************************************************************************)
(* Audio generation pipeline of the meditation app (server/routes/        *)
(* ttsRoutes.js): script segmentation (parsePlaceholders), per-block       *)
(* synthesis with caching (generateTTSForBlock, getOrCreateSilence), the   *)
(* batched fan-out of POST /generate-audio, the hand-over to the           *)
(* assembler (mergeChunksEfficiently), and the worker-thread executor      *)
(* (audioQueue.process, processBlocksWithWorkers, audioWorker.js).         *)
(*                                                                         *)
(* A script is a sequence of tokens.  A token is one character or one      *)
(* pause marker {{PAUSE_<digits>s}}; the marker is kept as one token that  *)
(* carries its digit string, which is what the regular expression          *)
(* /(\{\{PAUSE_\d+s\}\})/ isolates.  A text is a sequence of characters.   *)
(*                                                                         *)
(* A behaviour holds one request to /generate-audio (Spec), one job of the *)
(* audio-processing queue (WorkerSpec), one application of the segmenter   *)
(* (SegSpec), two invocations of mergeChunksEfficiently followed step by   *)
(* step (MergeSpec), one invocation of mergeAudioBuffers (GridMergeSpec),  *)
(* the lookups of the speech-chunk and silence caches (CacheSpec), the     *)
(* requests to /mix-with-music one at a time (MixSpec) or two at once      *)
(* (OverlapSpec), both caches under their sweeps (SweepSpec), one run of   *)
(* a filter graph of the mixer (GraphSpec), the requests to the queued     *)
(* /generate-audio (QueueSpec, and QueueFairSpec in which every generation *)
(* ends), a request under the sweeps of the janitors (JanitorSpec), calls  *)
(* of getOrCreateSilence with generateSilence followed step by step        *)
(* (SilenceSpec), calls of the GridFS-backed generateTTS (GridFSSpec), one *)
(* request to /generate of meditationRoutes.js (ExpandSpec, and            *)
(* ExpandFairSpec in which every call to the language model settles), or   *)
(* the requests to the music routes (MusicSpec).  An asynchronous function *)
(* runs without interruption up to its next await, so an action is the     *)
(* stretch of a handler between two awaits.                                *)
(* Within a request to /generate-audio, generateSilence and                *)
(* mergeChunksEfficiently are each one awaited operation that ends well or *)
(* fails; the files the assembler uses while it runs are followed in       *)
(* MergeSpec and GridMergeSpec.                                            *)
(***************************************************************************)
EXTENDS Integers, Sequences, FiniteSets, TLC

\* ------------------------------------------------------------------------
\* Bounds of the model
\* ------------------------------------------------------------------------
\* longest script given to the segmenter alone
MaxScriptLen == 5
\* longest script posted to /generate-audio
MaxReqLen == 4
\* MAX_CHUNK_LENGTH of parsePlaceholders; 4000 in the source, scaled down so
\* that texts on both sides of the threshold are within MaxScriptLen
MAX_CHUNK_LENGTH == 3
\* MAX_CONCURRENT of /generate-audio; 25 in the source, scaled down so that
\* requests of several batches are within MaxReqLen
MAX_CONCURRENT == 2
\* last value of the clock read by Date.now()
MaxNow == 1

\* ------------------------------------------------------------------------
\* Tokens and scripts
\* ------------------------------------------------------------------------
Ch(c) == [k |-> "ch", c |-> c, d |-> <<>>]
Marker(d) == [k |-> "pause", c |-> "", d |-> d]

\* characters matched by \s
Whitespace == {" ", "\n"}

IsWs(tok) == tok.k = "ch" /\ tok.c \in Whitespace

\* digit strings of the markers that occur in scripts
MarkerDigits == {<<0>>, <<2>>, <<0, 2>>}

SegAlphabet == {Ch("a"), Ch(","), Ch(" "), Ch("\n")} \cup {Marker(d) : d \in MarkerDigits}

ReqAlphabet == {Ch("a"), Ch(" "), Marker(<<0>>), Marker(<<2>>)}

SeqsUpTo(S, n) == UNION {[1..m -> S] : m \in 0..n}

\* ------------------------------------------------------------------------
\* parsePlaceholders
\* ------------------------------------------------------------------------
\* script.replace(/\s+/g, ' '): every maximal run of whitespace becomes one
\* space
RECURSIVE CollapseWs(_)
CollapseWs(s) ==
  IF s = <<>> THEN <<>>
  ELSE IF IsWs(Head(s))
       THEN IF Len(s) > 1 /\ IsWs(s[2])
            THEN CollapseWs(Tail(s))
            ELSE <<Ch(" ")>> \o CollapseWs(Tail(s))
       ELSE <<Head(s)>> \o CollapseWs(Tail(s))

RECURSIVE TrimLeft(_)
TrimLeft(s) ==
  IF s # <<>> /\ IsWs(Head(s)) THEN TrimLeft(Tail(s)) ELSE s

RECURSIVE TrimRight(_)
TrimRight(s) ==
  IF s # <<>> /\ IsWs(s[Len(s)]) THEN TrimRight(SubSeq(s, 1, Len(s) - 1)) ELSE s

\* String.prototype.trim on a token sequence
Trim(s) == TrimRight(TrimLeft(s))

\* .replace(/\s+/g, ' ').trim()
NormalizeWs(script) == Trim(CollapseWs(script))

\* a segment of the split: a piece of text (possibly empty) or one marker
TextSeg(t) == [k |-> "text", t |-> t, d |-> <<>>]
PauseSeg(d) == [k |-> "pause", t |-> <<>>, d |-> d]

\* .split(/(\{\{PAUSE_\d+s\}\})/g): text, marker, text, ..., text; the text
\* between two adjacent markers and at the ends is the empty string
RECURSIVE SplitAcc(_, _)
SplitAcc(s, cur) ==
  IF s = <<>> THEN <<TextSeg(cur)>>
  ELSE IF Head(s).k = "pause"
       THEN <<TextSeg(cur), PauseSeg(Head(s).d)>> \o SplitAcc(Tail(s), <<>>)
       ELSE SplitAcc(Tail(s), Append(cur, Head(s)))

\* variant of SplitOnMarkers: a split without the capture group, which drops
\* the markers
SplitOnMarkers_noCapture(s) == SelectSeq(SplitAcc(s, <<>>), LAMBDA seg : seg.k = "text")

SplitOnMarkers(s) == SplitAcc(s, <<>>)

\* variant of ParseInt: only the first digit is read
ParseInt_firstDigit(d) == IF d = <<>> THEN 0 ELSE d[1]

\* parseInt(digits, 10)
RECURSIVE ParseInt(_)
ParseInt(d) ==
  IF d = <<>> THEN 0 ELSE 10 * ParseInt(SubSeq(d, 1, Len(d) - 1)) + d[Len(d)]

\* the characters of a token sequence that holds no marker
RECURSIVE Chars(_)
Chars(s) == IF s = <<>> THEN <<>> ELSE <<Head(s).c>> \o Chars(Tail(s))

Block(text, pause) == [text |-> text, pause |-> pause]

\* the test of the accumulation branch:
\* (currentChunk + ' ' + segment).length <= MAX_CHUNK_LENGTH
FitsChunk(currentChunk, segment) ==
  Len(currentChunk) + 1 + Len(segment) <= MAX_CHUNK_LENGTH

\* one iteration of the for loop over the segments
SegStep(acc, seg) ==
  LET segment == IF seg.k = "pause" THEN <<>> ELSE Chars(Trim(seg.t))
  IN IF seg.k = "text" /\ segment = <<>> THEN acc
     ELSE IF seg.k = "pause"
     THEN LET flushed == IF acc.currentChunk # <<>>
                         THEN Append(acc.blocks, Block(acc.currentChunk, acc.currentPause))
                         ELSE acc.blocks
          IN [blocks |-> Append(flushed, Block(<<>>, ParseInt(seg.d))),
              currentChunk |-> IF acc.currentChunk # <<>> THEN <<>> ELSE acc.currentChunk,
              currentPause |-> IF acc.currentChunk # <<>> THEN 0 ELSE acc.currentPause]
     ELSE IF FitsChunk(acc.currentChunk, segment)
     THEN [acc EXCEPT !.currentChunk =
             IF acc.currentChunk # <<>> THEN acc.currentChunk \o <<" ">> \o segment
             ELSE segment]
     ELSE [blocks |-> IF acc.currentChunk # <<>>
                      THEN Append(acc.blocks, Block(acc.currentChunk, acc.currentPause))
                      ELSE acc.blocks,
           currentChunk |-> segment,
           currentPause |-> IF acc.currentChunk # <<>> THEN 0 ELSE acc.currentPause]

RECURSIVE SegLoop(_, _)
SegLoop(acc, segs) ==
  IF segs = <<>> THEN acc ELSE SegLoop(SegStep(acc, Head(segs)), Tail(segs))

parsePlaceholders(script) ==
  LET segments == SplitOnMarkers(NormalizeWs(script))
      acc == SegLoop([blocks |-> <<>>, currentChunk |-> <<>>, currentPause |-> 0], segments)
  IN IF acc.currentChunk # <<>>
     THEN Append(acc.blocks, Block(acc.currentChunk, acc.currentPause))
     ELSE acc.blocks

\* ------------------------------------------------------------------------
\* State of the server and of one POST /generate-audio request
\* ------------------------------------------------------------------------
VARIABLES
  text,             \* req.body.text, the posted script
  voice,            \* req.body.voice
  model,            \* req.body.model
  phase,            \* position of the request handler
  blocks,           \* the blocks returned by parsePlaceholders
  i,                \* loop variable of the batch loop (0-based start of the batch)
  unit,             \* per block: the state of its generateTTSForBlock call
  settleOrder,      \* the calls of the current batch in the order they settled
  chunkFiles,       \* the files collected so far
  audioChunkCache,  \* Map cacheKey -> entry
  SILENCE_CACHE,    \* Map rounded duration -> path
  fs,               \* the files that exist on disk
  ttsCalls,         \* the calls made to openai.audio.speech.create, in order
  ffmpegRuns,       \* number of transcoding engine invocations started
  mergeInput,       \* the files handed to mergeChunksEfficiently, once called
  finalPath,        \* the outputPath handed to mergeChunksEfficiently
  response,         \* the response sent to the caller
  now,              \* the value of Date.now()
  jobBatches,       \* the batches of the job run by the worker-thread executor
  asm,              \* per invocation of the assembler: its position and its locals
  content,          \* the content of the files the assembler reads and writes
  grid,             \* the invocation of mergeAudioBuffers: its position and its locals
  mergeCache,       \* Map cacheKey -> entry, of /mix-with-music
  mix,              \* per request to /mix-with-music: its position and its locals
  timers,           \* the setInterval timers of the two sweeps: when each is due next
  activeGenerations, \* the semaphore of the queued /generate-audio
  queue,            \* its queue: the requests that wait, oldest first
  gens,             \* per request to the queued /generate-audio: its position and response
  gridFSBucket,     \* the files of the GridFS bucket 'audio'
  expand,           \* the request to /generate of meditationRoutes.js: its position and locals
  Music             \* the Music collection, the music files and the requests to musicRoutes.js

\* the state of the assemblers taken alone and of the mixer
\* the state of the queued /generate-audio
queueVars == <<activeGenerations, queue, gens>>

\* the state of the GridFS-backed generateTTS, of the script generation and
\* of the music routes
routeVars == <<gridFSBucket, expand, Music>>

laterVars == <<asm, content, grid, mergeCache, mix, timers, queueVars, routeVars>>

vars == <<text, voice, model, phase, blocks, i, unit, settleOrder, chunkFiles,
          audioChunkCache, SILENCE_CACHE, fs, ttsCalls, ffmpegRuns, mergeInput,
          finalPath, response, now, jobBatches, laterVars>>

\* the requests to the queued /generate-audio that are followed
MaxRequests == 5
GenIds == 1..MaxRequests

\* a request that has not been made
IdleGen == [pc |-> "idle", status |-> 0]

\* no request to /generate has been made
\* pc: position of the handler; script: generatedScript, by its number of
\* words and the seconds of its pause markers; attempt: the calls that the
\* current invocation of expandScript has made before the one it awaits,
\* counted modulo MaxAttempts
IdleExpand == [pc |-> "idle", duration |-> 0, script |-> [words |-> 0, pauses |-> <<>>],
               iterations |-> 0, attempt |-> 0, status |-> 0]

\* no music record, no music file, no request to the music routes
IdleMusic == [records |-> {}, files |-> {}, reqs |-> <<>>, version |-> ""]

\* the bucket is empty and no request has been made to the other routes
RoutesIdle ==
  /\ gridFSBucket = {}
  /\ expand = IdleExpand
  /\ Music = IdleMusic

\* no request has been made yet
QueueIdle ==
  /\ activeGenerations = 0
  /\ queue = <<>>
  /\ gens = [r \in GenIds |-> IdleGen]

Voices == {"alloy", "nova"}
Models == {"tts-1"}

\* ------------------------------------------------------------------------
\* Paths, cache keys, results
\* ------------------------------------------------------------------------
\* a file path; null is the value of kind "null"
PathOf(kind, t, v, m, n) == [kind |-> kind, text |-> t, voice |-> v, model |-> m, n |-> n]

Null == PathOf("null", <<>>, "", "", 0)

\* generateChunkCacheKey: md5 of `${text}-${voice}-${model}`, one key per triple
generateChunkCacheKey(t, v, m) == [text |-> t, voice |-> v, model |-> m]

\* path.join(tempDir, `chunk-${cacheKey}.mp3`)
ChunkPath(cacheKey) == PathOf("chunk", cacheKey.text, cacheKey.voice, cacheKey.model, 0)

\* a duration of whole seconds; durations are kept in hundredths of a second
Hundredths(seconds) == seconds * 100

\* variant of SilenceKey: the tenths are cut off instead of rounded
SilenceKey_floor(duration) == duration \div 10

\* Math.round(seconds * 10) / 10, kept in tenths of a second: Math.round
\* takes the nearest integer, the upper one at a tie
SilenceKey(duration) == (duration + 5) \div 10

\* path.join(tempDir, `silence-${key}s.mp3`)
SilencePath(key) == PathOf("silence", <<>>, "", "", key)

\* path.join(audioDir, `meditation-${Date.now()}.mp3`)
FinalPath(time) == PathOf("meditation", <<>>, "", "", time)

NoResponse == [status |-> 0, audioUrl |-> Null, chunksProcessed |-> 0, cached |-> 0]

ErrorResponse(status) == [status |-> status, audioUrl |-> Null, chunksProcessed |-> 0, cached |-> 0]

\* the state of a call that has not been made
\* pc: position of the call; out: the value it returned; ext: number of calls
\* it made to the synthesis service; prior: an earlier call for the same text
\* that had returned a path whose file was on disk when this call started
\* (0 if there was none); err: what made the call throw; seconds: the argument
\* of getOrCreateSilence
IdleCall == [pc |-> "idle", out |-> Null, ext |-> 0, prior |-> 0, err |-> "", seconds |-> 0]

\* the place of an entry in the iteration order of a Map: a new key goes to
\* the end, a key that is set again keeps its place
PlaceOf(map, key) ==
  IF key \in DOMAIN map THEN map[key].order
  ELSE IF DOMAIN map = {} THEN 1
  ELSE 1 + (CHOOSE n \in {map[k].order : k \in DOMAIN map} :
              \A k \in DOMAIN map : map[k].order <= n)

MapPut(map, key, value) == [k \in DOMAIN map \cup {key} |-> IF k = key THEN value ELSE map[k]]

EmptyMap == [k \in {} |-> Null]

\* ------------------------------------------------------------------------
\* generateTTSForBlock and getOrCreateSilence
\* ------------------------------------------------------------------------
\* variant of ChunkCacheHit: the cache is not consulted
ChunkCacheHit_never(cache, files, cacheKey) == FALSE

\* cachedChunk && fs.existsSync(cachedChunk.path)
ChunkCacheHit(cache, files, cacheKey) ==
  cacheKey \in DOMAIN cache /\ cache[cacheKey].path \in files

\* the earlier calls for the text of block j that have returned a path whose
\* file is on disk
PriorCalls(st, bls, j) ==
  {u \in DOMAIN bls : /\ u # j
                      /\ bls[u].text = bls[j].text
                      /\ st.unit[u].pc = "resolved"
                      /\ st.unit[u].out.kind = "chunk"
                      /\ st.unit[u].out \in st.fs}

MinOf(S) == CHOOSE x \in S : \A y \in S : x <= y

Resolve(st, j, path) ==
  [st EXCEPT !.unit[j].pc = "resolved", !.unit[j].out = path,
             !.settleOrder = Append(st.settleOrder, j)]

\* getOrCreateSilence(seconds) up to its first await
SilenceStart(st, j, seconds) ==
  LET key == SilenceKey(seconds)
      silenceFile == SilencePath(key)
      called == [st EXCEPT !.unit[j].seconds = seconds]
  IN IF key \in DOMAIN st.SILENCE_CACHE
     THEN Resolve(called, j, st.SILENCE_CACHE[key])
     ELSE IF silenceFile \in st.fs
     THEN Resolve([called EXCEPT !.SILENCE_CACHE = MapPut(st.SILENCE_CACHE, key, silenceFile)],
                  j, silenceFile)
     ELSE \* generateSilence(seconds, silenceFile) starts the transcoding engine
          [called EXCEPT !.unit[j].pc = "sil_wait", !.ffmpegRuns = st.ffmpegRuns + 1]

\* generateTTSForBlock(block, voice, model, index) up to its first await
CallStart(st, j, bls, cache, v, m) ==
  LET block == bls[j]
      cacheKey == generateChunkCacheKey(block.text, v, m)
      prior == PriorCalls(st, bls, j)
      st1 == [st EXCEPT !.unit[j].prior = IF prior = {} THEN 0 ELSE MinOf(prior)]
  IN IF block.text = <<>> /\ block.pause > 0
     THEN SilenceStart(st, j, Hundredths(block.pause))
     ELSE IF block.text = <<>>
     THEN Resolve(st, j, Null)
     ELSE IF ChunkCacheHit(cache, st.fs, cacheKey)
     THEN Resolve(st1, j, cache[cacheKey].path)
     ELSE \* openai.audio.speech.create({ model, voice, input: block.text })
          [st1 EXCEPT !.unit[j].pc = "tts_wait", !.unit[j].ext = st1.unit[j].ext + 1,
                      !.ttsCalls = Append(st1.ttsCalls,
                                          [input |-> block.text, voice |-> v, model |-> m])]

\* batch.map(block => generateTTSForBlock(block, voice, model, i)): the calls
\* of blocks lo..hi are started in order, each running up to its first await
RECURSIVE StartBatch(_, _, _, _, _, _, _)
StartBatch(st, lo, hi, bls, cache, v, m) ==
  IF lo > hi THEN st
  ELSE StartBatch(CallStart(st, lo, bls, cache, v, m), lo + 1, hi, bls, cache, v, m)

Min(a, b) == IF a < b THEN a ELSE b

\* blocks.slice(i, Math.min(i + MAX_CONCURRENT, blocks.length)), as the range
\* of 1-based block indices
BatchLo(start) == start + 1
BatchHi(start, bls) == Min(start + MAX_CONCURRENT, Len(bls))

\* ------------------------------------------------------------------------
\* POST /generate-audio
\* ------------------------------------------------------------------------
Server == [unit |-> unit, settleOrder |-> settleOrder, SILENCE_CACHE |-> SILENCE_CACHE,
           fs |-> fs, ttsCalls |-> ttsCalls, ffmpegRuns |-> ffmpegRuns]

Commit(st) ==
  /\ unit' = st.unit
  /\ settleOrder' = st.settleOrder
  /\ SILENCE_CACHE' = st.SILENCE_CACHE
  /\ fs' = st.fs
  /\ ttsCalls' = st.ttsCalls
  /\ ffmpegRuns' = st.ffmpegRuns

\* variant of BatchResults: the results in the order the calls settled
BatchResults_settleOrder(u, order, lo, hi) == [k \in 1..(hi - lo + 1) |-> u[order[k]].out]

\* the value of Promise.all(batch.map(...)): the results in the order of the
\* batch, whatever the order the calls settled in
BatchResults(u, order, lo, hi) == [k \in 1..(hi - lo + 1) |-> u[lo + k - 1].out]

\* Promise.all resolves once every call of the batch has resolved
AllResolved(u, lo, hi) == \A j \in lo..hi : u[j].pc = "resolved"

\* variant of FilterBoolean: the results are collected unfiltered
FilterBoolean_none(results) == results

\* results.filter(Boolean)
FilterBoolean(results) == SelectSeq(results, LAMBDA r : r # Null)

\* if (chunkFiles.length === 0) throw new Error('No audio chunks were generated')
NoChunks(files) == Len(files) = 0

\* mergeChunksEfficiently: if (files.length === 0) throw new Error('No files to merge')
NoFilesToMerge(files) == Len(files) = 0

\* the batch loop from the batch that starts at `start`, up to the next await:
\* either the calls of the batch are started, or the loop is over and the
\* collected files are handed to mergeChunksEfficiently
RunLoop(start, files, st, bls, v, m) ==
  /\ chunkFiles' = files
  /\ i' = start
  /\ IF start < Len(bls)
     THEN /\ Commit(StartBatch([st EXCEPT !.settleOrder = <<>>],
                               BatchLo(start), BatchHi(start, bls), bls, audioChunkCache, v, m))
          /\ phase' = "batch"
          /\ UNCHANGED <<mergeInput, finalPath, response, queueVars, routeVars>>
     ELSE /\ Commit(st)
          /\ IF NoChunks(files)
             THEN /\ phase' = "responded"
                  /\ response' = ErrorResponse(500)
                  /\ UNCHANGED <<mergeInput, finalPath, queueVars, routeVars>>
             ELSE /\ finalPath' = FinalPath(now)
                  /\ mergeInput' = files
                  /\ IF NoFilesToMerge(files)
                     THEN phase' = "responded" /\ response' = ErrorResponse(500)
                     ELSE phase' = "merging" /\ UNCHANGED response

\* the handler from the arrival of the request to its first await
PostGenerateAudio(t, v, m) ==
  /\ phase = "idle"
  /\ text' = t
  /\ voice' = v
  /\ model' = m
  /\ UNCHANGED <<audioChunkCache, now, jobBatches, laterVars>>
  /\ IF t = <<>>
     THEN \* if (!text) return res.status(400)
          /\ phase' = "responded"
          /\ response' = ErrorResponse(400)
          /\ UNCHANGED <<blocks, i, unit, settleOrder, chunkFiles, SILENCE_CACHE, fs,
                         ttsCalls, ffmpegRuns, mergeInput, finalPath, queueVars, routeVars>>
     ELSE LET bls == parsePlaceholders(t)
          IN /\ blocks' = bls
             /\ RunLoop(0, <<>>, [Server EXCEPT !.unit = [j \in 1..Len(bls) |-> IdleCall]],
                        bls, v, m)

\* a rejected call rejects Promise.all at once: the handler's catch answers 500
RejectCall(j, cause) ==
  /\ Commit([Server EXCEPT !.unit[j].pc = "rejected", !.unit[j].err = cause,
                           !.settleOrder = Append(settleOrder, j)])
  /\ IF phase = "batch"
     THEN phase' = "responded" /\ response' = ErrorResponse(500)
     ELSE UNCHANGED <<phase, response, queueVars, routeVars>>
  /\ UNCHANGED <<text, voice, model, blocks, i, chunkFiles, audioChunkCache, mergeInput,
                 finalPath, now, jobBatches, laterVars>>

\* openai.audio.speech.create settles: it returns audio, returns nothing, or throws
TTSRespond(j, outcome) ==
  /\ j \in DOMAIN unit
  /\ unit[j].pc = "tts_wait"
  /\ IF outcome = "audio"
     THEN /\ unit' = [unit EXCEPT ![j].pc = "write_wait"]
          /\ UNCHANGED <<text, voice, model, phase, blocks, i, settleOrder, chunkFiles,
                         audioChunkCache, SILENCE_CACHE, fs, ttsCalls, ffmpegRuns,
                         mergeInput, finalPath, response, now, jobBatches, laterVars>>
     ELSE RejectCall(j, "tts")

\* variant of WriteDone: the entry is registered before the write is awaited
WriteDone_registersFirst(j, ok) ==
  /\ j \in DOMAIN unit
  /\ unit[j].pc = "write_wait"
  /\ LET cacheKey == generateChunkCacheKey(blocks[j].text, voice, model)
         outPath == ChunkPath(cacheKey)
     IN /\ audioChunkCache' = MapPut(audioChunkCache, cacheKey,
                                      [path |-> outPath, timestamp |-> now,
                                       order |-> PlaceOf(audioChunkCache, cacheKey)])
        /\ IF ok
           THEN /\ Commit(Resolve([Server EXCEPT !.fs = fs \cup {outPath}], j, outPath))
                /\ UNCHANGED <<phase, response>>
           ELSE /\ Commit([Server EXCEPT !.unit[j].pc = "rejected", !.unit[j].err = "write",
                                         !.settleOrder = Append(settleOrder, j)])
                /\ IF phase = "batch"
                   THEN phase' = "responded" /\ response' = ErrorResponse(500)
                   ELSE UNCHANGED <<phase, response>>
  /\ UNCHANGED <<text, voice, model, blocks, i, chunkFiles, mergeInput, finalPath, now,
                 jobBatches, laterVars>>

\* fs.promises.writeFile(outPath, buffer) settles; on success the chunk is
\* cached and its path returned
WriteDone(j, ok) ==
  /\ j \in DOMAIN unit
  /\ unit[j].pc = "write_wait"
  /\ IF ok
     THEN LET cacheKey == generateChunkCacheKey(blocks[j].text, voice, model)
              outPath == ChunkPath(cacheKey)
          IN /\ audioChunkCache' = MapPut(audioChunkCache, cacheKey,
                                             [path |-> outPath, timestamp |-> now,
                                              order |-> PlaceOf(audioChunkCache, cacheKey)])
             /\ Commit(Resolve([Server EXCEPT !.fs = fs \cup {outPath}], j, outPath))
             /\ UNCHANGED <<text, voice, model, phase, blocks, i, chunkFiles, mergeInput,
                            finalPath, response, now, jobBatches, laterVars>>
     ELSE RejectCall(j, "write")

\* generateSilence settles; on success the file is registered in SILENCE_CACHE
\* and its path returned
SilenceDone(j, ok) ==
  /\ j \in DOMAIN unit
  /\ unit[j].pc = "sil_wait"
  /\ IF ok
     THEN LET key == SilenceKey(unit[j].seconds)
              silenceFile == SilencePath(key)
          IN /\ Commit(Resolve([Server EXCEPT
                                  !.fs = fs \cup {silenceFile},
                                  !.SILENCE_CACHE = MapPut(SILENCE_CACHE, key, silenceFile)],
                               j, silenceFile))
             /\ UNCHANGED <<text, voice, model, phase, blocks, i, chunkFiles,
                            audioChunkCache, mergeInput, finalPath, response, now, jobBatches, laterVars>>
     ELSE RejectCall(j, "silence")

\* the await of Promise.all returns: the results are collected and the loop
\* goes on with the next batch
BatchResume ==
  /\ phase = "batch"
  /\ AllResolved(unit, BatchLo(i), BatchHi(i, blocks))
  /\ LET results == BatchResults(unit, settleOrder, BatchLo(i), BatchHi(i, blocks))
     IN RunLoop(i + MAX_CONCURRENT, chunkFiles \o FilterBoolean(results), Server,
                blocks, voice, model)
  /\ UNCHANGED <<text, voice, model, blocks, audioChunkCache, now, jobBatches, laterVars>>

\* variant of TempFiles: every collected file is taken for a temp file
TempFiles_all(files) == {files[k] : k \in DOMAIN files}

\* chunkFiles.filter(file => file && !file.includes('chunk-') &&
\* !file.includes('silence-')): the files the handler unlinks after the merge
TempFiles(files) ==
  {files[k] : k \in {x \in DOMAIN files : files[x].kind \notin {"chunk", "silence"}}}

\* mergeChunksEfficiently(chunkFiles, finalPath) settles, then the handler
\* removes the collected files that are neither chunk- nor silence- files and
\* answers.  The merge ends well, fails in its first stage (fail_wav), or fails
\* in its last stage without (fail_mp3) or with (fail_partial) an output file;
\* a single file is copied, which is a last stage alone
MergeDone(outcome) ==
  /\ phase = "merging"
  /\ phase' = "responded"
  /\ ffmpegRuns' = ffmpegRuns + (IF Len(mergeInput) < 2 THEN 0
                                 ELSE IF outcome = "fail_wav" THEN 1 ELSE 2)
  /\ IF outcome = "ok"
     THEN /\ fs' = (fs \cup {finalPath}) \ TempFiles(chunkFiles)
          /\ response' = [status |-> 200, audioUrl |-> finalPath,
                          chunksProcessed |-> Len(blocks),
                          cached |-> Len(blocks) - Len(chunkFiles)]
     ELSE \* a failed last stage may leave what it had written of the output
          /\ fs' = IF outcome = "fail_partial" THEN fs \cup {finalPath} ELSE fs
          /\ response' = ErrorResponse(500)
  /\ UNCHANGED <<text, voice, model, blocks, i, unit, settleOrder, chunkFiles,
                 audioChunkCache, SILENCE_CACHE, ttsCalls, mergeInput, finalPath, now, jobBatches, laterVars>>

\* time passes
Tick ==
  /\ now < MaxNow
  /\ now' = now + 1
  /\ UNCHANGED <<text, voice, model, phase, blocks, i, unit, settleOrder, chunkFiles,
                 audioChunkCache, SILENCE_CACHE, fs, ttsCalls, ffmpegRuns, mergeInput,
                 finalPath, response, jobBatches, laterVars>>

\* retention of a cache entry and period of the sweep of its cache, on a
\* clock whose unit is half of the 24 hours of the source
CHUNK_CACHE_DURATION == 2
MERGE_CACHE_DURATION == 2

\* setInterval(..., CHUNK_CACHE_DURATION) and setInterval(..., MERGE_CACHE_DURATION),
\* both set when the module is loaded; thrown: the file whose deletion threw
\* out of a sweep
StartTimers == [chunk |-> CHUNK_CACHE_DURATION, merge |-> MERGE_CACHE_DURATION,
                thrown |-> Null]

\* the assembler taken alone is not running
IdleGrid == [pc |-> "idle", urls |-> <<>>, tempFiles |-> <<>>, pending |-> {},
             outputPath |-> Null, err |-> ""]

\* the assemblers taken alone and the mixer are not running
LaterInit ==
  /\ asm = <<>>
  /\ content = EmptyMap
  /\ grid = IdleGrid
  /\ mergeCache = EmptyMap
  /\ mix = <<>>
  /\ timers = StartTimers
  /\ QueueIdle
  /\ RoutesIdle

Init ==
  /\ text = <<>>
  /\ voice = ""
  /\ model = ""
  /\ phase = "idle"
  /\ blocks = <<>>
  /\ i = 0
  /\ unit = <<>>
  /\ settleOrder = <<>>
  /\ chunkFiles = <<>>
  /\ audioChunkCache = EmptyMap
  /\ SILENCE_CACHE = EmptyMap
  /\ fs = {}
  /\ ttsCalls = <<>>
  /\ ffmpegRuns = 0
  /\ mergeInput = <<>>
  /\ finalPath = Null
  /\ response = NoResponse
  /\ now = 0
  /\ jobBatches = <<>>
  /\ LaterInit

Next ==
  \/ /\ phase = "idle"
     /\ \E t \in SeqsUpTo(ReqAlphabet, MaxReqLen), v \in Voices, m \in Models :
          PostGenerateAudio(t, v, m)
  \/ \E j \in DOMAIN unit, outcome \in {"audio", "empty", "throw"} : TTSRespond(j, outcome)
  \/ \E j \in DOMAIN unit, ok \in BOOLEAN : WriteDone(j, ok)
  \/ \E j \in DOMAIN unit, ok \in BOOLEAN : SilenceDone(j, ok)
  \/ BatchResume
  \/ \E outcome \in {"ok", "fail_wav", "fail_mp3", "fail_partial"} : MergeDone(outcome)
  \/ Tick

Spec == Init /\ [][Next]_vars

\* ------------------------------------------------------------------------
\* The worker-thread executor: audioQueue.process, processBlocksWithWorkers,
\* audioWorker.js, mergeResults
\* ------------------------------------------------------------------------
\* the number of workers a job creates; 4 in the source
NUM_WORKERS == 2
\* minBatchSize and maxBatchSize of determineOptimalBatchSize; 5 and 25 in
\* the source, scaled down so that jobs of several batches are within MaxReqLen
MinBatchSize == 1
MaxBatchSize == 2
\* the divisor of Math.ceil(totalBlocks / 4)
BatchDivisor == 4

Max(a, b) == IF a > b THEN a ELSE b

CeilDiv(a, b) == (a + b - 1) \div b

determineOptimalBatchSize(totalBlocks) ==
  Min(MaxBatchSize, Max(MinBatchSize, CeilDiv(totalBlocks, BatchDivisor)))

\* one iteration of the for loop of the parsePlaceholders of ttsRoutes.js: the
\* segment is trimmed for the match only, its text is accumulated as it is
WorkerSegStep(acc, seg) ==
  LET segment == Chars(seg.t)
  IN IF seg.k = "pause"
     THEN [blocks |-> Append(IF acc.currentChunk # <<>>
                             THEN Append(acc.blocks, Block(acc.currentChunk, acc.currentPause))
                             ELSE acc.blocks,
                             Block(<<>>, ParseInt(seg.d))),
           currentChunk |-> <<>>,
           currentPause |-> 0]
     ELSE IF FitsChunk(acc.currentChunk, segment)
     THEN [acc EXCEPT !.currentChunk =
             IF acc.currentChunk # <<>> THEN acc.currentChunk \o <<" ">> \o segment
             ELSE segment]
     ELSE [blocks |-> IF acc.currentChunk # <<>>
                      THEN Append(acc.blocks, Block(acc.currentChunk, acc.currentPause))
                      ELSE acc.blocks,
           currentChunk |-> segment,
           currentPause |-> 0]

RECURSIVE WorkerSegLoop(_, _)
WorkerSegLoop(acc, segs) ==
  IF segs = <<>> THEN acc ELSE WorkerSegLoop(WorkerSegStep(acc, Head(segs)), Tail(segs))

\* the parsePlaceholders of ttsRoutes.js: the empty segments of the split are
\* removed by .filter(Boolean), the others are not trimmed
WorkerParsePlaceholders(script) ==
  LET segments == SelectSeq(SplitOnMarkers(NormalizeWs(script)),
                            LAMBDA seg : seg.k = "pause" \/ seg.t # <<>>)
      acc == WorkerSegLoop([blocks |-> <<>>, currentChunk |-> <<>>, currentPause |-> 0],
                           segments)
  IN IF acc.currentChunk # <<>>
     THEN Append(acc.blocks, Block(acc.currentChunk, acc.currentPause))
     ELSE acc.blocks

\* the batches of processBlocksWithWorkers: blocks.slice(i, i + batchSize) for
\* i = 0, batchSize, ...; batch `index` goes to workers[index % workers.length].
\* wstate: where the message that carries the batch is; promise, value: the
\* promise that the main thread made for the batch
MakeBatches(n, batchSize) ==
  [b \in 1..CeilDiv(n, batchSize) |->
     [lo |-> (b - 1) * batchSize + 1,
      hi |-> Min(b * batchSize, n),
      worker |-> ((b - 1) % NUM_WORKERS) + 1,
      wstate |-> "posted",
      promise |-> "pending",
      value |-> <<>>]]

\* worker-chunk-${Date.now()}-${random}.mp3: a name of its own for every call
WorkerChunkPath(block, j) == PathOf("worker_chunk", block.text, "alloy", "tts-1", j)

\* audioQueue.process(job) up to the await of processBlocksWithWorkers: the
\* batches are made and every batch is posted to its worker.  The job carries
\* the text, the voice and the model of the request; the handler reads
\* job.data.text alone
QueueProcess(t, v, m) ==
  /\ phase = "idle"
  /\ text' = t
  /\ voice' = v
  /\ model' = m
  /\ LET bls == WorkerParsePlaceholders(t)
     IN /\ blocks' = bls
        /\ unit' = [j \in 1..Len(bls) |-> IdleCall]
        /\ jobBatches' = MakeBatches(Len(bls), determineOptimalBatchSize(Len(bls)))
  /\ phase' = "job_wait"
  /\ UNCHANGED <<i, settleOrder, chunkFiles, audioChunkCache, SILENCE_CACHE,
                 fs, ttsCalls, ffmpegRuns, mergeInput, finalPath, response, now, laterVars>>

\* generateTTSForBlock of audioWorker.js up to its first await: a block without
\* text returns null, silence blocks included; the voice and the model are
\* the literals 'alloy' and 'tts-1'
WorkerCallStart(st, j, bls) ==
  IF bls[j].text = <<>>
  THEN [st EXCEPT !.unit[j].pc = "resolved", !.unit[j].out = Null]
  ELSE [st EXCEPT !.unit[j].pc = "w_tts_wait", !.unit[j].ext = st.unit[j].ext + 1,
                  !.ttsCalls = Append(st.ttsCalls,
                                      [input |-> bls[j].text, voice |-> "alloy",
                                       model |-> "tts-1"])]

\* batch.map(block => generateTTSForBlock(block, 'alloy', 'tts-1'))
RECURSIVE WorkerStartBatch(_, _, _, _)
WorkerStartBatch(st, lo, hi, bls) ==
  IF lo > hi THEN st ELSE WorkerStartBatch(WorkerCallStart(st, lo, bls), lo + 1, hi, bls)

\* parentPort.on('message'): the worker takes the next message posted to it
\* and starts the calls of its batch
WorkerReceive(b) ==
  /\ b \in DOMAIN jobBatches
  /\ jobBatches[b].wstate = "posted"
  /\ \A a \in 1..(b - 1) :
       jobBatches[a].worker = jobBatches[b].worker => jobBatches[a].wstate # "posted"
  /\ jobBatches' = [jobBatches EXCEPT ![b].wstate = "running"]
  /\ Commit(WorkerStartBatch(Server, jobBatches[b].lo, jobBatches[b].hi, blocks))
  /\ UNCHANGED <<text, voice, model, phase, blocks, i, chunkFiles, audioChunkCache,
                 mergeInput, finalPath, response, now, laterVars>>

\* openai.audio.speech.create settles in the worker; a failure is caught and
\* the call returns null
WorkerTTSRespond(j, outcome) ==
  /\ j \in DOMAIN unit
  /\ unit[j].pc = "w_tts_wait"
  /\ unit' = IF outcome = "audio"
             THEN [unit EXCEPT ![j].pc = "w_write_wait"]
             ELSE [unit EXCEPT ![j].pc = "resolved", ![j].out = Null, ![j].err = "tts"]
  /\ UNCHANGED <<text, voice, model, phase, blocks, i, settleOrder, chunkFiles,
                 audioChunkCache, SILENCE_CACHE, fs, ttsCalls, ffmpegRuns, mergeInput,
                 finalPath, response, now, jobBatches, laterVars>>

\* fs.promises.writeFile settles in the worker
WorkerWriteDone(j, ok) ==
  /\ j \in DOMAIN unit
  /\ unit[j].pc = "w_write_wait"
  /\ IF ok
     THEN /\ unit' = [unit EXCEPT ![j].pc = "resolved",
                                  ![j].out = WorkerChunkPath(blocks[j], j)]
          /\ fs' = fs \cup {WorkerChunkPath(blocks[j], j)}
     ELSE /\ unit' = [unit EXCEPT ![j].pc = "resolved", ![j].out = Null, ![j].err = "write"]
          /\ fs' = fs
  /\ UNCHANGED <<text, voice, model, phase, blocks, i, settleOrder, chunkFiles,
                 audioChunkCache, SILENCE_CACHE, ttsCalls, ffmpegRuns, mergeInput,
                 finalPath, response, now, jobBatches, laterVars>>

\* parentPort.postMessage(results) and the 'message' event it raises on the
\* main thread: every listener that worker.once('message', resolve) has put on
\* this worker and that has not run yet runs with these results
WorkerReply(b) ==
  /\ b \in DOMAIN jobBatches
  /\ jobBatches[b].wstate = "running"
  /\ \A j \in jobBatches[b].lo..jobBatches[b].hi : unit[j].pc = "resolved"
  /\ LET results == [k \in 1..(jobBatches[b].hi - jobBatches[b].lo + 1) |->
                       unit[jobBatches[b].lo + k - 1].out]
     IN jobBatches' =
          [a \in DOMAIN jobBatches |->
             LET replied == IF a = b THEN [jobBatches[a] EXCEPT !.wstate = "replied"]
                            ELSE jobBatches[a]
             IN IF jobBatches[a].worker = jobBatches[b].worker /\ jobBatches[a].promise = "pending"
                THEN [replied EXCEPT !.promise = "resolved", !.value = results]
                ELSE replied]
  /\ settleOrder' = Append(settleOrder, b)
  /\ UNCHANGED <<text, voice, model, phase, blocks, i, unit, chunkFiles, audioChunkCache,
                 SILENCE_CACHE, fs, ttsCalls, ffmpegRuns, mergeInput, finalPath, response,
                 now, laterVars>>

\* a worker raises 'error': the listeners of worker.once('error', reject) that
\* have not run yet reject their promises, Promise.all rejects and the job fails;
\* the thread is gone, with the calls it had in flight
WorkerError(w) ==
  /\ phase = "job_wait"
  /\ \E b \in DOMAIN jobBatches : jobBatches[b].worker = w /\ jobBatches[b].promise = "pending"
  /\ jobBatches' =
       [a \in DOMAIN jobBatches |->
          IF jobBatches[a].worker # w THEN jobBatches[a]
          ELSE [jobBatches[a] EXCEPT
                  !.wstate = IF @ = "replied" THEN @ ELSE "dead",
                  !.promise = IF @ = "pending" THEN "rejected" ELSE @]]
  /\ unit' = [j \in DOMAIN unit |->
                IF /\ unit[j].pc \in {"idle", "w_tts_wait", "w_write_wait"}
                   /\ \E a \in DOMAIN jobBatches :
                        /\ jobBatches[a].worker = w
                        /\ j \in jobBatches[a].lo..jobBatches[a].hi
                THEN [unit[j] EXCEPT !.pc = "dead"]
                ELSE unit[j]]
  /\ phase' = "job_failed"
  /\ UNCHANGED <<text, voice, model, blocks, i, settleOrder, chunkFiles, audioChunkCache,
                 SILENCE_CACHE, fs, ttsCalls, ffmpegRuns, mergeInput, finalPath, response,
                 now, laterVars>>

\* results.flat(): the values of the batch promises, one after the other
RECURSIVE Flat(_)
Flat(values) == IF values = <<>> THEN <<>> ELSE Head(values) \o Flat(Tail(values))

\* the await of Promise.all in processBlocksWithWorkers returns, then
\* mergeResults up to its await: without a valid file it throws, else it hands
\* the valid files to mergeChunksEfficiently, which starts the transcoding engine
JobResume ==
  /\ phase = "job_wait"
  /\ \A b \in DOMAIN jobBatches : jobBatches[b].promise = "resolved"
  /\ LET results == Flat([b \in DOMAIN jobBatches |-> jobBatches[b].value])
         validFiles == FilterBoolean(results)
     IN /\ chunkFiles' = results
        /\ IF Len(validFiles) = 0
           THEN /\ phase' = "job_failed"
                /\ UNCHANGED <<mergeInput, finalPath, ffmpegRuns, queueVars, routeVars>>
           ELSE /\ phase' = "job_merging"
                /\ finalPath' = FinalPath(now)
                /\ mergeInput' = validFiles
                /\ ffmpegRuns' = ffmpegRuns + 1
  /\ UNCHANGED <<text, voice, model, blocks, i, unit, settleOrder, audioChunkCache,
                 SILENCE_CACHE, fs, ttsCalls, response, now, jobBatches, laterVars>>

\* the transcoding engine started by the mergeChunksEfficiently of ttsRoutes.js
\* ends.  That function puts no listener on 'end' nor on 'error': when the
\* engine ends well the output is written and the promise stays pending, so
\* the job never returns; when it fails, the 'error' event has no listener
JobFfmpegDone(ok) ==
  /\ phase = "job_merging"
  /\ phase' = IF ok THEN "job_hung" ELSE "job_crashed"
  /\ fs' = IF ok THEN fs \cup {finalPath} ELSE fs
  /\ UNCHANGED <<text, voice, model, blocks, i, unit, settleOrder, chunkFiles,
                 audioChunkCache, SILENCE_CACHE, ttsCalls, ffmpegRuns, mergeInput, finalPath,
                 response, now, jobBatches, laterVars>>

WorkerNext ==
  \/ /\ phase = "idle"
     /\ \E t \in SeqsUpTo(ReqAlphabet, MaxReqLen), v \in Voices, m \in Models :
          QueueProcess(t, v, m)
  \/ \E b \in DOMAIN jobBatches : WorkerReceive(b)
  \/ \E j \in DOMAIN unit, outcome \in {"audio", "empty", "throw"} : WorkerTTSRespond(j, outcome)
  \/ \E j \in DOMAIN unit, ok \in BOOLEAN : WorkerWriteDone(j, ok)
  \/ \E b \in DOMAIN jobBatches : WorkerReply(b)
  \/ \E w \in 1..NUM_WORKERS : WorkerError(w)
  \/ JobResume
  \/ \E ok \in BOOLEAN : JobFfmpegDone(ok)
  \/ Tick

WorkerSpec == Init /\ [][WorkerNext]_vars

\* ------------------------------------------------------------------------
\* The assembler: the hand-over of /generate-audio and mergeChunksEfficiently,
\* step by step, for two requests that run in the same process
\* ------------------------------------------------------------------------
\* the most files handed to one invocation
MaxFiles == 3

\* the requests whose hand-over to the assembler is followed
Invocations == {1, 2}

\* path.join(tempDir, `temp-${Date.now()}.wav`)
TempWavPath(time) == PathOf("temp_wav", <<>>, "", "", time)

\* path.join(tempDir, `list-${Date.now()}.txt`)
ListPath(time) == PathOf("list", <<>>, "", "", time)

\* the files the requests collect: a speech chunk and a silence file
InputFiles == {ChunkPath(generateChunkCacheKey(<<"a">>, "alloy", "tts-1")),
               SilencePath(SilenceKey(Hundredths(2)))}

\* the content of a file: the audio of the listed sources one after the
\* other, or a concat list that names the listed files
Audio(sources) == [kind |-> "audio", parts |-> sources]
NoContent == [kind |-> "none", parts |-> <<>>]

\* variant of Manifest: the lines of the list in reverse order
Manifest_reversed(files) ==
  [kind |-> "list", parts |-> [k \in 1..Len(files) |-> files[Len(files) + 1 - k]]]

\* files.map(f => `file '${f}'`).join('\n'): one line per file, in order
Manifest(files) == [kind |-> "list", parts |-> files]

\* what the concat demuxer makes of a list: the audio of the files the list
\* names, in the order of its lines
RECURSIVE ConcatAudio(_, _)
ConcatAudio(c, parts) ==
  IF parts = <<>> THEN <<>> ELSE c[Head(parts)].parts \o ConcatAudio(c, Tail(parts))

\* a function without the keys of S
Without(map, S) == [k \in DOMAIN map \ S |-> map[k]]

IdleAsm == [pc |-> "idle", files |-> <<>>, outputPath |-> Null, tempWavPath |-> Null,
            listPath |-> Null, fileContent |-> NoContent, result |-> NoContent]

\* the finally block: the list and the intermediate WAV are removed if they exist
AsmCleanup(c, a) == Without(c, {a.listPath, a.tempWavPath})

\* lines 276-278 of the route and mergeChunksEfficiently(files, outputPath) up
\* to its first await
AsmCall(p, files) ==
  /\ asm[p].pc = "idle"
  /\ LET a == [asm[p] EXCEPT !.files = files, !.outputPath = FinalPath(now)]
     IN asm' = [asm EXCEPT ![p] =
                  IF Len(files) = 0 THEN [a EXCEPT !.pc = "thrown"]
                  ELSE IF Len(files) = 1 THEN [a EXCEPT !.pc = "copy"]
                  ELSE [a EXCEPT !.pc = "list_write",
                                 !.tempWavPath = TempWavPath(now),
                                 !.listPath = ListPath(now),
                                 !.fileContent = Manifest(files)]]
  /\ UNCHANGED <<text, voice, model, phase, blocks, i, unit, settleOrder, chunkFiles,
                 audioChunkCache, SILENCE_CACHE, fs, ttsCalls, ffmpegRuns, mergeInput,
                 finalPath, response, now, jobBatches, content, grid, mergeCache, mix, timers, queueVars, routeVars>>

\* fs.promises.copyFile(files[0], outputPath) settles
AsmCopyDone(p, ok) ==
  /\ asm[p].pc = "copy"
  /\ IF ok /\ asm[p].files[1] \in DOMAIN content
     THEN /\ content' = MapPut(content, asm[p].outputPath, content[asm[p].files[1]])
          /\ asm' = [asm EXCEPT ![p].pc = "returned",
                                ![p].result = content[asm[p].files[1]]]
     ELSE /\ content' = content
          /\ asm' = [asm EXCEPT ![p].pc = "thrown"]
  /\ fs' = DOMAIN content'
  /\ UNCHANGED <<text, voice, model, phase, blocks, i, unit, settleOrder, chunkFiles,
                 audioChunkCache, SILENCE_CACHE, ttsCalls, ffmpegRuns, mergeInput,
                 finalPath, response, now, jobBatches, grid, mergeCache, mix, timers, queueVars, routeVars>>

\* fs.promises.writeFile(listPath, fileContent) settles; on success the first
\* transcoding stage is started, a failure leaves the function before its try
AsmListWritten(p, ok) ==
  /\ asm[p].pc = "list_write"
  /\ IF ok
     THEN /\ content' = MapPut(content, asm[p].listPath, asm[p].fileContent)
          /\ asm' = [asm EXCEPT ![p].pc = "wav"]
          /\ ffmpegRuns' = ffmpegRuns + 1
     ELSE /\ content' = content
          /\ asm' = [asm EXCEPT ![p].pc = "thrown"]
          /\ ffmpegRuns' = ffmpegRuns
  /\ fs' = DOMAIN content'
  /\ UNCHANGED <<text, voice, model, phase, blocks, i, unit, settleOrder, chunkFiles,
                 audioChunkCache, SILENCE_CACHE, ttsCalls, mergeInput, finalPath, response,
                 now, jobBatches, grid, mergeCache, mix, timers, queueVars, routeVars>>

\* the list at listPath can be read by the concat demuxer: it is a list and
\* every file it names holds audio
ListReadable(c, listPath) ==
  /\ listPath \in DOMAIN c
  /\ c[listPath].kind = "list"
  /\ \A k \in DOMAIN c[listPath].parts :
       /\ c[listPath].parts[k] \in DOMAIN c
       /\ c[c[listPath].parts[k]].kind = "audio"

\* the first transcoding stage ends: the engine has read the list that is at
\* listPath and written the intermediate WAV, or it has failed and the finally
\* block runs
AsmWavDone(p, ok) ==
  /\ asm[p].pc = "wav"
  /\ IF ok /\ ListReadable(content, asm[p].listPath)
     THEN /\ content' = MapPut(content, asm[p].tempWavPath,
                               Audio(ConcatAudio(content, content[asm[p].listPath].parts)))
          /\ asm' = [asm EXCEPT ![p].pc = "mp3"]
          /\ ffmpegRuns' = ffmpegRuns + 1
     ELSE /\ content' = AsmCleanup(content, asm[p])
          /\ asm' = [asm EXCEPT ![p].pc = "thrown"]
          /\ ffmpegRuns' = ffmpegRuns
  /\ fs' = DOMAIN content'
  /\ UNCHANGED <<text, voice, model, phase, blocks, i, unit, settleOrder, chunkFiles,
                 audioChunkCache, SILENCE_CACHE, ttsCalls, mergeInput, finalPath, response,
                 now, jobBatches, grid, mergeCache, mix, timers, queueVars, routeVars>>

\* the second transcoding stage ends: the engine has read the intermediate WAV
\* and written the output, or it has failed, with or without a part of the
\* output written; the finally block runs either way
AsmMp3Done(p, outcome) ==
  /\ asm[p].pc = "mp3"
  /\ IF /\ outcome = "ok"
        /\ asm[p].tempWavPath \in DOMAIN content
        /\ content[asm[p].tempWavPath].kind = "audio"
     THEN /\ content' = AsmCleanup(MapPut(content, asm[p].outputPath,
                                          content[asm[p].tempWavPath]), asm[p])
          /\ asm' = [asm EXCEPT ![p].pc = "returned",
                                ![p].result = content[asm[p].tempWavPath]]
     ELSE /\ content' = AsmCleanup(IF outcome = "fail_partial"
                                   THEN MapPut(content, asm[p].outputPath,
                                               [kind |-> "partial", parts |-> <<>>])
                                   ELSE content, asm[p])
          /\ asm' = [asm EXCEPT ![p].pc = "thrown"]
  /\ fs' = DOMAIN content'
  /\ UNCHANGED <<text, voice, model, phase, blocks, i, unit, settleOrder, chunkFiles,
                 audioChunkCache, SILENCE_CACHE, ttsCalls, ffmpegRuns, mergeInput,
                 finalPath, response, now, jobBatches, grid, mergeCache, mix, timers, queueVars, routeVars>>

\* the collected files are on disk, each with its own audio; no hand-over yet
MergeInit ==
  /\ text = <<>>
  /\ voice = ""
  /\ model = ""
  /\ phase = "assembler"
  /\ blocks = <<>>
  /\ i = 0
  /\ unit = <<>>
  /\ settleOrder = <<>>
  /\ chunkFiles = <<>>
  /\ audioChunkCache = EmptyMap
  /\ SILENCE_CACHE = EmptyMap
  /\ fs = InputFiles
  /\ ttsCalls = <<>>
  /\ ffmpegRuns = 0
  /\ mergeInput = <<>>
  /\ finalPath = Null
  /\ response = NoResponse
  /\ now = 0
  /\ jobBatches = <<>>
  /\ asm = [p \in Invocations |-> IdleAsm]
  /\ content = [f \in InputFiles |-> Audio(<<f>>)]
  /\ grid = IdleGrid
  /\ mergeCache = EmptyMap
  /\ mix = <<>>
  /\ timers = StartTimers
  /\ QueueIdle
  /\ RoutesIdle

MergeNext ==
  \/ \E p \in Invocations, files \in SeqsUpTo(InputFiles, MaxFiles) : AsmCall(p, files)
  \/ \E p \in Invocations, ok \in BOOLEAN : AsmCopyDone(p, ok)
  \/ \E p \in Invocations, ok \in BOOLEAN : AsmListWritten(p, ok)
  \/ \E p \in Invocations, ok \in BOOLEAN : AsmWavDone(p, ok)
  \/ \E p \in Invocations, outcome \in {"ok", "fail", "fail_partial"} : AsmMp3Done(p, outcome)
  \/ Tick

MergeSpec == MergeInit /\ [][MergeNext]_vars

\* ------------------------------------------------------------------------
\* The assembler of the GridFS variant: mergeAudioBuffers
\* ------------------------------------------------------------------------
\* path.join(tempDir, `temp-${index}-${Date.now()}.mp3`)
GridTempPath(index, time) == PathOf("grid_temp", <<index>>, "", "", time)

\* path.join(tempDir, `merged-${Date.now()}.mp3`)
GridMergedPath(time) == PathOf("grid_merged", <<>>, "", "", time)

\* the paths of a sequence
Range(seq) == {seq[k] : k \in DOMAIN seq}

\* mergeAudioBuffers(urls) up to the await of the downloads: every download
\* has opened its temp file
GridCall(n) ==
  /\ grid.pc = "idle"
  /\ LET tempFiles == [k \in 1..n |-> GridTempPath(k - 1, now)]
     IN /\ grid' = [grid EXCEPT !.pc = "download",
                                !.urls = [k \in 1..n |-> k],
                                !.tempFiles = tempFiles,
                                !.pending = 1..n]
        /\ fs' = fs \cup Range(tempFiles)
  /\ UNCHANGED <<text, voice, model, phase, blocks, i, unit, settleOrder, chunkFiles,
                 audioChunkCache, SILENCE_CACHE, ttsCalls, ffmpegRuns, mergeInput,
                 finalPath, response, now, jobBatches, asm, content, mergeCache, mix, timers, queueVars, routeVars>>

\* one download ends.  The first that fails rejects Promise.all: the function
\* throws from outside its try, the other downloads go on.  When the last one
\* has ended well, mergeAudioFiles(tempFiles, outputPath) is started
GridDownloadDone(k, ok) ==
  /\ k \in grid.pending
  /\ LET left == grid.pending \ {k}
     IN IF grid.pc = "download" /\ ~ok
        THEN /\ grid' = [grid EXCEPT !.pc = "thrown", !.pending = left, !.err = "download"]
             /\ UNCHANGED ffmpegRuns
        ELSE IF grid.pc = "download" /\ left = {}
        THEN /\ grid' = [grid EXCEPT !.pc = "merge", !.pending = left,
                                     !.outputPath = GridMergedPath(now)]
             /\ ffmpegRuns' = ffmpegRuns + 1
        ELSE /\ grid' = [grid EXCEPT !.pending = left]
             /\ UNCHANGED ffmpegRuns
  /\ UNCHANGED <<text, voice, model, phase, blocks, i, unit, settleOrder, chunkFiles,
                 audioChunkCache, SILENCE_CACHE, fs, ttsCalls, mergeInput, finalPath,
                 response, now, jobBatches, asm, content, mergeCache, mix, timers, queueVars, routeVars>>

\* mergeAudioFiles ends: the output is written and read next, or the engine
\* has failed, with or without a part of the output written, and the catch
\* removes the downloaded files
GridMergeDone(outcome) ==
  /\ grid.pc = "merge"
  /\ IF outcome = "ok"
     THEN /\ grid' = [grid EXCEPT !.pc = "read"]
          /\ fs' = fs \cup {grid.outputPath}
     ELSE /\ grid' = [grid EXCEPT !.pc = "thrown", !.err = "merge"]
          /\ fs' = (IF outcome = "fail_partial" THEN fs \cup {grid.outputPath} ELSE fs)
                     \ Range(grid.tempFiles)
  /\ UNCHANGED <<text, voice, model, phase, blocks, i, unit, settleOrder, chunkFiles,
                 audioChunkCache, SILENCE_CACHE, ttsCalls, ffmpegRuns, mergeInput,
                 finalPath, response, now, jobBatches, asm, content, mergeCache, mix, timers, queueVars, routeVars>>

\* fs.promises.readFile(outputPath) ends: on success the downloaded files and
\* the output are removed, on failure the catch removes the downloaded files
GridReadDone(ok) ==
  /\ grid.pc = "read"
  /\ IF ok
     THEN /\ grid' = [grid EXCEPT !.pc = "returned"]
          /\ fs' = fs \ (Range(grid.tempFiles) \cup {grid.outputPath})
     ELSE /\ grid' = [grid EXCEPT !.pc = "thrown", !.err = "read"]
          /\ fs' = fs \ Range(grid.tempFiles)
  /\ UNCHANGED <<text, voice, model, phase, blocks, i, unit, settleOrder, chunkFiles,
                 audioChunkCache, SILENCE_CACHE, ttsCalls, ffmpegRuns, mergeInput,
                 finalPath, response, now, jobBatches, asm, content, mergeCache, mix, timers, queueVars, routeVars>>

GridNext ==
  \/ \E n \in 1..MaxFiles : GridCall(n)
  \/ \E k \in 1..MaxFiles, ok \in BOOLEAN : GridDownloadDone(k, ok)
  \/ \E outcome \in {"ok", "fail", "fail_partial"} : GridMergeDone(outcome)
  \/ \E ok \in BOOLEAN : GridReadDone(ok)
  \/ Tick

GridMergeSpec == Init /\ [][GridNext]_vars

\* ------------------------------------------------------------------------
\* The caches of the running server: lookups of generateTTSForBlock and of
\* getOrCreateSilence, POST /mix-with-music, the two sweeps
\* ------------------------------------------------------------------------
\* the clock of a run ends after two periods of the sweeps
MaxClock == 2 * CHUNK_CACHE_DURATION

\* a run makes at most MaxCalls calls to the synthesis service and starts the
\* transcoding engine at most MaxRuns times
MaxCalls == 2
MaxRuns == 4

\* the texts, durations (in hundredths of a second) and request bodies of a run
CacheTexts == {<<"a">>, <<"b">>}
SilenceDurations == {200, 204, 206}
\* (a url that is missing from the body is "", the volumes are in tenths)
MixBodies == [ttsUrl : {"", "/audio/meditation.mp3", "/audio/gone.mp3"},
              musicUrl : {"", "/music/rain.mp3", "/music/gone.mp3"},
              musicVolume : {3, 5}, ttsVolume : {5, 10}]

\* the requests to /mix-with-music that are followed
MixIds == {1}

\* path.join(__dirname, '../public', url)
PublicPath(url) == PathOf("public", <<url>>, "", "", 0)

\* generateMergeCacheKey: md5 of `${ttsUrl}-${musicUrl}-${volume}`
generateMergeCacheKey(ttsUrl, musicUrl, volume) ==
  [ttsUrl |-> ttsUrl, musicUrl |-> musicUrl, volume |-> volume]

\* variant of MixCacheKey: the speech volume is part of the key
MixCacheKey_withTtsVolume(body) ==
  generateMergeCacheKey(body.ttsUrl, body.musicUrl, 100 * body.musicVolume + body.ttsVolume)

\* const cacheKey = generateMergeCacheKey(ttsUrl, musicUrl, musicVolume)
MixCacheKey(body) == generateMergeCacheKey(body.ttsUrl, body.musicUrl, body.musicVolume)

\* path.join(audioDir, `merged-${cacheKey}.mp3`) and `/audio/merged-${cacheKey}.mp3`
MergedPath(cacheKey) ==
  PathOf("merged", <<cacheKey.ttsUrl, cacheKey.musicUrl>>, "", "", cacheKey.volume)
MergedUrl(cacheKey) ==
  PathOf("url", <<cacheKey.ttsUrl, cacheKey.musicUrl>>, "", "", cacheKey.volume)

\* variant of FilesExist: the music file is not looked for
FilesExist_speechOnly(files, ttsPath, musicPath) == ttsPath \in files

\* fs.existsSync(ttsPath) && fs.existsSync(musicPath)
FilesExist(files, ttsPath, musicPath) == ttsPath \in files /\ musicPath \in files

\* cachedMerge && fs.existsSync(cachedMerge.path)
MergeCacheHit(cache, files, cacheKey) ==
  cacheKey \in DOMAIN cache /\ cache[cacheKey].path \in files

\* variant of AfterHit: a hit renews the timestamp of the entry
AfterHit_touch(cache, cacheKey, time) == [cache EXCEPT ![cacheKey].timestamp = time]

\* the map after a hit: the hit branch returns the cached path or url and
\* writes nothing to the map
AfterHit(cache, cacheKey, time) == cache

MixResponse(status, url, cached) == [status |-> status, mixedAudioUrl |-> url, cached |-> cached]

\* a request to /mix-with-music that has not been made
\* pc: position of the handler; probes: ffprobe calls made; runs: transcoding
\* engine invocations started
IdleMix == [pc |-> "idle",
            body |-> [ttsUrl |-> "", musicUrl |-> "", musicVolume |-> 0, ttsVolume |-> 0],
            cacheKey |-> generateMergeCacheKey("", "", 0),
            tempWavPath |-> Null, outputPath |-> Null, probes |-> 0, runs |-> 0,
            response |-> MixResponse(0, Null, FALSE)]

MixAnswer(r, status, url, cached) ==
  [r EXCEPT !.pc = "done", !.response = MixResponse(status, url, cached)]

\* the requests of a run are followed one at a time: the call of the last
\* lookup has settled and the last mix has been answered
Quiet ==
  /\ IF unit = <<>> THEN TRUE ELSE unit[1].pc \in {"resolved", "rejected"}
  /\ \A p \in MixIds : mix[p].pc \in {"idle", "done"}

\* the handler of /mix-with-music up to its first await or its response
MixHandler(p, body) ==
  /\ mix[p].pc \in {"idle", "done"}
  /\ ffmpegRuns + 2 <= MaxRuns
  /\ LET ttsPath == PublicPath(body.ttsUrl)
         musicPath == PublicPath(body.musicUrl)
         cacheKey == MixCacheKey(body)
         r == [IdleMix EXCEPT !.body = body]
     IN IF body.ttsUrl = "" \/ body.musicUrl = ""
        THEN /\ mix' = [mix EXCEPT ![p] = MixAnswer(r, 400, Null, FALSE)]
             /\ mergeCache' = mergeCache
        ELSE IF ~FilesExist(fs, ttsPath, musicPath)
        THEN /\ mix' = [mix EXCEPT ![p] = MixAnswer(r, 404, Null, FALSE)]
             /\ mergeCache' = mergeCache
        ELSE IF MergeCacheHit(mergeCache, fs, cacheKey)
        THEN /\ mix' = [mix EXCEPT ![p] = MixAnswer([r EXCEPT !.cacheKey = cacheKey], 200,
                                                      mergeCache[cacheKey].url, TRUE)]
             /\ mergeCache' = AfterHit(mergeCache, cacheKey, now)
        ELSE \* Promise.all([getAudioMetadata(ttsPath), getAudioMetadata(musicPath)])
             /\ mix' = [mix EXCEPT ![p] = [r EXCEPT !.pc = "probe", !.cacheKey = cacheKey,
                                                     !.probes = 2]]
             /\ mergeCache' = mergeCache
  /\ UNCHANGED <<text, voice, model, phase, blocks, i, unit, settleOrder, chunkFiles,
                 audioChunkCache, SILENCE_CACHE, fs, ttsCalls, ffmpegRuns, mergeInput,
                 finalPath, response, now, jobBatches, asm, content, grid, timers, queueVars, routeVars>>

\* a request to /mix-with-music that arrives while no other is in progress
MixRequest(p, body) == Quiet /\ MixHandler(p, body)

\* the two probes settle; with both durations the filter-graph stage is
\* started on a temp WAV named after the clock
MixProbeDone(p, ok) ==
  /\ mix[p].pc = "probe"
  /\ IF ok
     THEN /\ mix' = [mix EXCEPT ![p].pc = "wav_wait",
                                ![p].outputPath = MergedPath(mix[p].cacheKey),
                                ![p].tempWavPath = TempWavPath(now),
                                ![p].runs = mix[p].runs + 1]
          /\ ffmpegRuns' = ffmpegRuns + 1
     ELSE /\ mix' = [mix EXCEPT ![p] = MixAnswer(mix[p], 500, Null, FALSE)]
          /\ ffmpegRuns' = ffmpegRuns
  /\ UNCHANGED <<text, voice, model, phase, blocks, i, unit, settleOrder, chunkFiles,
                 audioChunkCache, SILENCE_CACHE, fs, ttsCalls, mergeInput, finalPath,
                 response, now, jobBatches, asm, content, grid, mergeCache, timers, queueVars, routeVars>>

\* the filter-graph stage settles: on 'end' the WAV-to-MP3 stage is started,
\* on 'error' the promise is rejected and the catch answers 500
MixWavDone(p, outcome) ==
  /\ mix[p].pc = "wav_wait"
  /\ IF outcome = "ok"
     THEN /\ fs' = fs \cup {mix[p].tempWavPath}
          /\ mix' = [mix EXCEPT ![p].pc = "mp3_wait", ![p].runs = mix[p].runs + 1]
          /\ ffmpegRuns' = ffmpegRuns + 1
     ELSE /\ fs' = IF outcome = "fail_partial" THEN fs \cup {mix[p].tempWavPath} ELSE fs
          /\ mix' = [mix EXCEPT ![p] = MixAnswer(mix[p], 500, Null, FALSE)]
          /\ ffmpegRuns' = ffmpegRuns
  /\ UNCHANGED <<text, voice, model, phase, blocks, i, unit, settleOrder, chunkFiles,
                 audioChunkCache, SILENCE_CACHE, ttsCalls, mergeInput, finalPath,
                 response, now, jobBatches, asm, content, grid, mergeCache, timers, queueVars, routeVars>>

\* the WAV-to-MP3 stage settles: both handlers unlink the temp WAV; on 'end'
\* the output is registered in mergeCache and the handler answers
MixMp3Done(p, outcome) ==
  /\ mix[p].pc = "mp3_wait"
  /\ LET r == mix[p]
         cleaned == fs \ {r.tempWavPath}
     IN IF outcome = "ok"
        THEN /\ fs' = cleaned \cup {r.outputPath}
             /\ mergeCache' = MapPut(mergeCache, r.cacheKey,
                                     [path |-> r.outputPath, url |-> MergedUrl(r.cacheKey),
                                      timestamp |-> now,
                                      order |-> PlaceOf(mergeCache, r.cacheKey)])
             /\ mix' = [mix EXCEPT ![p] = MixAnswer(r, 200, MergedUrl(r.cacheKey), FALSE)]
        ELSE /\ fs' = IF outcome = "fail_partial" THEN cleaned \cup {r.outputPath}
                      ELSE cleaned
             /\ mergeCache' = mergeCache
             /\ mix' = [mix EXCEPT ![p] = MixAnswer(r, 500, Null, FALSE)]
  /\ UNCHANGED <<text, voice, model, phase, blocks, i, unit, settleOrder, chunkFiles,
                 audioChunkCache, SILENCE_CACHE, ttsCalls, ffmpegRuns, mergeInput,
                 finalPath, response, now, jobBatches, asm, content, grid, timers, queueVars, routeVars>>

\* generateTTSForBlock for a block of text, up to its first await
LookupChunk(t) ==
  /\ Quiet
  /\ Len(ttsCalls) < MaxCalls
  /\ blocks' = <<Block(t, 0)>>
  /\ LET cacheKey == generateChunkCacheKey(t, voice, model)
     IN audioChunkCache' = IF ChunkCacheHit(audioChunkCache, fs, cacheKey)
                           THEN AfterHit(audioChunkCache, cacheKey, now)
                           ELSE audioChunkCache
  /\ Commit(CallStart([Server EXCEPT !.unit = <<IdleCall>>, !.settleOrder = <<>>],
                      1, blocks', audioChunkCache, voice, model))
  /\ UNCHANGED <<text, voice, model, phase, i, chunkFiles, mergeInput, finalPath,
                 response, now, jobBatches, laterVars>>

\* getOrCreateSilence(seconds), up to its first await
LookupSilence(seconds) ==
  /\ Quiet
  /\ ffmpegRuns < MaxRuns
  /\ blocks' = <<>>
  /\ Commit(SilenceStart([Server EXCEPT !.unit = <<IdleCall>>, !.settleOrder = <<>>],
                         1, seconds))
  /\ UNCHANGED <<text, voice, model, phase, i, chunkFiles, audioChunkCache, mergeInput,
                 finalPath, response, now, jobBatches, laterVars>>

\* now - value.timestamp > CHUNK_CACHE_DURATION, for the entries of a cache
Expired(cache, duration, time) ==
  {k \in DOMAIN cache : time - cache[k].timestamp > duration}

\* variant of SweepAll: the entries leave the map, their files stay
SweepAll_keepFiles(cache, files, duration, time) ==
  [cache |-> Without(cache, Expired(cache, duration, time)), fs |-> files]

\* the loop of a sweep run to its end: the file of every expired entry is
\* unlinked if it exists and the entry deleted
SweepAll(cache, files, duration, time) ==
  LET old == Expired(cache, duration, time)
  IN [cache |-> Without(cache, old), fs |-> files \ {cache[k].path : k \in old}]

\* the loop of a sweep left by unlinkSync throwing at the entry of key at:
\* the expired entries that come before it in the iteration order of the Map
\* have been evicted
SweepUntil(cache, files, duration, time, at) ==
  LET old == {k \in Expired(cache, duration, time) : cache[k].order < cache[at].order}
  IN [cache |-> Without(cache, old), fs |-> files \ {cache[k].path : k \in old}]

\* the timer of the speech-chunk cache fires and its callback returns
SweepChunkCache ==
  /\ now >= timers.chunk
  /\ LET swept == SweepAll(audioChunkCache, fs, CHUNK_CACHE_DURATION, now)
     IN audioChunkCache' = swept.cache /\ fs' = swept.fs
  /\ timers' = [timers EXCEPT !.chunk = timers.chunk + CHUNK_CACHE_DURATION]
  /\ UNCHANGED <<text, voice, model, phase, blocks, i, unit, settleOrder, chunkFiles,
                 SILENCE_CACHE, ttsCalls, ffmpegRuns, mergeInput, finalPath, response,
                 now, jobBatches, asm, content, grid, mergeCache, mix, queueVars, routeVars>>

\* the timer of the speech-chunk cache fires and fs.unlinkSync throws on the
\* file of an expired entry: nothing catches the exception, it leaves the
\* callback and ends the process
SweepChunkCacheThrows(at) ==
  /\ now >= timers.chunk
  /\ at \in Expired(audioChunkCache, CHUNK_CACHE_DURATION, now)
  /\ audioChunkCache[at].path \in fs
  /\ LET swept == SweepUntil(audioChunkCache, fs, CHUNK_CACHE_DURATION, now, at)
     IN audioChunkCache' = swept.cache /\ fs' = swept.fs
  /\ timers' = [timers EXCEPT !.thrown = audioChunkCache[at].path]
  /\ phase' = "crashed"
  /\ UNCHANGED <<text, voice, model, blocks, i, unit, settleOrder, chunkFiles,
                 SILENCE_CACHE, ttsCalls, ffmpegRuns, mergeInput, finalPath, response,
                 now, jobBatches, asm, content, grid, mergeCache, mix, queueVars, routeVars>>

\* the timer of the merge cache fires and its callback returns
SweepMergeCache ==
  /\ now >= timers.merge
  /\ LET swept == SweepAll(mergeCache, fs, MERGE_CACHE_DURATION, now)
     IN mergeCache' = swept.cache /\ fs' = swept.fs
  /\ timers' = [timers EXCEPT !.merge = timers.merge + MERGE_CACHE_DURATION]
  /\ UNCHANGED <<text, voice, model, phase, blocks, i, unit, settleOrder, chunkFiles,
                 audioChunkCache, SILENCE_CACHE, ttsCalls, ffmpegRuns, mergeInput,
                 finalPath, response, now, jobBatches, asm, content, grid, mix, queueVars, routeVars>>

\* the timer of the merge cache fires and fs.unlinkSync throws
SweepMergeCacheThrows(at) ==
  /\ now >= timers.merge
  /\ at \in Expired(mergeCache, MERGE_CACHE_DURATION, now)
  /\ mergeCache[at].path \in fs
  /\ LET swept == SweepUntil(mergeCache, fs, MERGE_CACHE_DURATION, now, at)
     IN mergeCache' = swept.cache /\ fs' = swept.fs
  /\ timers' = [timers EXCEPT !.thrown = mergeCache[at].path]
  /\ phase' = "crashed"
  /\ UNCHANGED <<text, voice, model, blocks, i, unit, settleOrder, chunkFiles,
                 audioChunkCache, SILENCE_CACHE, ttsCalls, ffmpegRuns, mergeInput,
                 finalPath, response, now, jobBatches, asm, content, grid, mix, queueVars, routeVars>>

\* the clock advances; a timer that is due fires before it does
Elapse ==
  /\ now < MaxClock
  /\ now < timers.chunk
  /\ now < timers.merge
  /\ now' = now + 1
  /\ UNCHANGED <<text, voice, model, phase, blocks, i, unit, settleOrder, chunkFiles,
                 audioChunkCache, SILENCE_CACHE, fs, ttsCalls, ffmpegRuns, mergeInput,
                 finalPath, response, jobBatches, laterVars>>

\* the server has started: both caches are empty, the speech file and the
\* music file of the requests are on disk
CacheInit ==
  /\ text = <<>>
  /\ voice = "alloy"
  /\ model = "tts-1"
  /\ phase = "serving"
  /\ blocks = <<>>
  /\ i = 0
  /\ unit = <<>>
  /\ settleOrder = <<>>
  /\ chunkFiles = <<>>
  /\ audioChunkCache = EmptyMap
  /\ SILENCE_CACHE = EmptyMap
  /\ fs = {PublicPath("/audio/meditation.mp3"), PublicPath("/music/rain.mp3")}
  /\ ttsCalls = <<>>
  /\ ffmpegRuns = 0
  /\ mergeInput = <<>>
  /\ finalPath = Null
  /\ response = NoResponse
  /\ now = 0
  /\ jobBatches = <<>>
  /\ asm = <<>>
  /\ content = EmptyMap
  /\ grid = IdleGrid
  /\ mergeCache = EmptyMap
  /\ mix = [p \in MixIds |-> IdleMix]
  /\ timers = StartTimers
  /\ QueueIdle
  /\ RoutesIdle

\* the process is up: no exception has left a timer callback
Up == phase = "serving"

\* the lookups of the speech-chunk cache and of the silence cache, with every
\* outcome of the synthesis service, of the write and of the transcoding engine
CacheNext ==
  \/ Up /\ \E t \in CacheTexts : LookupChunk(t)
  \/ Up /\ \E seconds \in SilenceDurations : LookupSilence(seconds)
  \/ Up /\ \E o \in {"audio", "empty", "throw"} : TTSRespond(1, o)
  \/ Up /\ \E ok \in BOOLEAN : WriteDone(1, ok)
  \/ Up /\ \E ok \in BOOLEAN : SilenceDone(1, ok)
  \/ Up /\ SweepChunkCache
  \/ Up /\ \E at \in DOMAIN audioChunkCache : SweepChunkCacheThrows(at)
  \/ Up /\ SweepMergeCache
  \/ Up /\ Elapse

CacheSpec == CacheInit /\ [][CacheNext]_vars

\* the requests to /mix-with-music, with every body and every outcome of the
\* probes and of the transcoding engine
MixNext ==
  \/ Up /\ \E p \in MixIds, body \in MixBodies : MixRequest(p, body)
  \/ Up /\ \E p \in MixIds, ok \in BOOLEAN : MixProbeDone(p, ok)
  \/ Up /\ \E p \in MixIds, o \in {"ok", "fail", "fail_partial"} : MixWavDone(p, o)
  \/ Up /\ \E p \in MixIds, o \in {"ok", "fail", "fail_partial"} : MixMp3Done(p, o)
  \/ Up /\ SweepChunkCache
  \/ Up /\ SweepMergeCache
  \/ Up /\ \E at \in DOMAIN mergeCache : SweepMergeCacheThrows(at)
  \/ Up /\ Elapse

MixSpec == CacheInit /\ [][MixNext]_vars

\* the bodies whose speech file and music file are on disk
LiveBodies == {body \in MixBodies : /\ body.ttsUrl = "/audio/meditation.mp3"
                                    /\ body.musicUrl = "/music/rain.mp3"}

\* both caches under their sweeps: the lookups and the mixes of a run whose
\* synthesis calls, writes, probes and transcoding runs all succeed
SweepNext ==
  \/ Up /\ \E t \in CacheTexts : LookupChunk(t)
  \/ Up /\ TTSRespond(1, "audio")
  \/ Up /\ WriteDone(1, TRUE)
  \/ Up /\ \E p \in MixIds, body \in LiveBodies : MixRequest(p, body)
  \/ Up /\ \E p \in MixIds : MixProbeDone(p, TRUE)
  \/ Up /\ \E p \in MixIds : MixWavDone(p, "ok")
  \/ Up /\ \E p \in MixIds : MixMp3Done(p, "ok")
  \/ Up /\ SweepChunkCache
  \/ Up /\ \E at \in DOMAIN audioChunkCache : SweepChunkCacheThrows(at)
  \/ Up /\ SweepMergeCache
  \/ Up /\ \E at \in DOMAIN mergeCache : SweepMergeCacheThrows(at)
  \/ Up /\ Elapse

SweepSpec == CacheInit /\ [][SweepNext]_vars

\* the requests to /mix-with-music that may overlap
OverlapIds == {1, 2}

\* their bodies: two music volumes, hence two cache keys
OverlapBodies == {body \in LiveBodies : body.ttsVolume = 10}

OverlapInit ==
  /\ text = <<>>
  /\ voice = "alloy"
  /\ model = "tts-1"
  /\ phase = "serving"
  /\ blocks = <<>>
  /\ i = 0
  /\ unit = <<>>
  /\ settleOrder = <<>>
  /\ chunkFiles = <<>>
  /\ audioChunkCache = EmptyMap
  /\ SILENCE_CACHE = EmptyMap
  /\ fs = {PublicPath("/audio/meditation.mp3"), PublicPath("/music/rain.mp3")}
  /\ ttsCalls = <<>>
  /\ ffmpegRuns = 0
  /\ mergeInput = <<>>
  /\ finalPath = Null
  /\ response = NoResponse
  /\ now = 0
  /\ jobBatches = <<>>
  /\ asm = <<>>
  /\ content = EmptyMap
  /\ grid = IdleGrid
  /\ mergeCache = EmptyMap
  /\ mix = [p \in OverlapIds |-> IdleMix]
  /\ timers = StartTimers
  /\ QueueIdle
  /\ RoutesIdle

\* two clients of /mix-with-music whose requests may be in progress at the
\* same time, with every outcome of the probes and of the transcoding engine
OverlapNext ==
  \/ Up /\ \E p \in OverlapIds, body \in OverlapBodies : MixHandler(p, body)
  \/ Up /\ \E p \in OverlapIds, ok \in BOOLEAN : MixProbeDone(p, ok)
  \/ Up /\ \E p \in OverlapIds, o \in {"ok", "fail"} : MixWavDone(p, o)
  \/ Up /\ \E p \in OverlapIds, o \in {"ok", "fail"} : MixMp3Done(p, o)
  \/ Up /\ SweepChunkCache
  \/ Up /\ SweepMergeCache
  \/ Up /\ Elapse

OverlapSpec == OverlapInit /\ [][OverlapNext]_vars

\* ------------------------------------------------------------------------
\* A request to /generate-audio under the sweeps
\* ------------------------------------------------------------------------
\* longest script of a request that is followed under the sweeps
MaxSweptLen == 2

\* the chunk of 'a' that an earlier request has left in the cache
EarlierKey == generateChunkCacheKey(<<"a">>, "alloy", "tts-1")

\* the server has been up since the clock read 0, when an earlier request
\* registered the chunk of 'a'
JanitorInit ==
  /\ text = <<>>
  /\ voice = ""
  /\ model = ""
  /\ phase = "idle"
  /\ blocks = <<>>
  /\ i = 0
  /\ unit = <<>>
  /\ settleOrder = <<>>
  /\ chunkFiles = <<>>
  /\ audioChunkCache = MapPut(EmptyMap, EarlierKey,
                              [path |-> ChunkPath(EarlierKey), timestamp |-> 0, order |-> 1])
  /\ SILENCE_CACHE = EmptyMap
  /\ fs = {ChunkPath(EarlierKey)}
  /\ ttsCalls = <<>>
  /\ ffmpegRuns = 0
  /\ mergeInput = <<>>
  /\ finalPath = Null
  /\ response = NoResponse
  /\ now = 0
  /\ jobBatches = <<>>
  /\ LaterInit

\* the continuation of the handler is due: it runs before any timer callback
HandlerDue == phase = "batch" /\ AllResolved(unit, BatchLo(i), BatchHi(i, blocks))

\* every file handed to the assembler is on disk
InputsOnDisk == \A k \in DOMAIN mergeInput : mergeInput[k] \in fs

\* one request to /generate-audio while the clock advances and the timers of
\* the sweeps fire; the assembler cannot succeed on a file that is gone
JanitorNext ==
  \/ /\ phase = "idle"
     /\ \E t \in SeqsUpTo(ReqAlphabet, MaxSweptLen), v \in Voices, m \in Models :
          PostGenerateAudio(t, v, m)
  \/ \E j \in DOMAIN unit, outcome \in {"audio", "empty", "throw"} : TTSRespond(j, outcome)
  \/ \E j \in DOMAIN unit, ok \in BOOLEAN : WriteDone(j, ok)
  \/ \E j \in DOMAIN unit, ok \in BOOLEAN : SilenceDone(j, ok)
  \/ BatchResume
  \/ \E outcome \in {"ok", "fail_wav", "fail_mp3", "fail_partial"} :
       (outcome = "ok" => InputsOnDisk) /\ MergeDone(outcome)
  \/ ~HandlerDue /\ SweepChunkCache
  \/ ~HandlerDue /\ SweepMergeCache
  \/ ~HandlerDue /\ Elapse

JanitorSpec == JanitorInit /\ [][JanitorNext]_vars

\* ------------------------------------------------------------------------
\* getOrCreateSilence called by several callers at once: the length of the
\* silence files.  content maps a silence file to the length of the audio
\* it holds, in hundredths of a second.
\* ------------------------------------------------------------------------
\* the callers of getOrCreateSilence that are followed
MaxCallers == 3

\* const sampleRate = 44100
SampleRate == 44100

\* const frameCount = Math.floor(sampleRate * seconds)
FrameCount(duration) == (SampleRate * duration) \div 100

\* the length of the WAV that generateSilence writes, which is the length
\* the encoded file has once the engine has ended with success (the padding
\* of the encoder to whole MP3 frames is not followed)
WavDuration(duration) == (FrameCount(duration) * 100) \div SampleRate

\* a caller calls getOrCreateSilence(seconds), which runs up to its await
SilenceCall(j, seconds) ==
  /\ unit[j].pc = "idle"
  /\ Commit(SilenceStart(Server, j, seconds))
  /\ UNCHANGED <<text, voice, model, phase, blocks, i, chunkFiles, audioChunkCache,
                 mergeInput, finalPath, response, now, jobBatches, laterVars>>

\* the transcoding engine of call j opens its output: the file is created, or
\* emptied if it was there, before any audio is in it
SilenceOpened(j) ==
  /\ unit[j].pc = "sil_wait"
  /\ LET silenceFile == SilencePath(SilenceKey(unit[j].seconds))
     IN /\ fs' = fs \cup {silenceFile}
        /\ content' = MapPut(content, silenceFile, 0)
  /\ unit' = [unit EXCEPT ![j].pc = "sil_encoding"]
  /\ UNCHANGED <<text, voice, model, phase, blocks, i, settleOrder, chunkFiles,
                 audioChunkCache, SILENCE_CACHE, ttsCalls, ffmpegRuns, mergeInput,
                 finalPath, response, now, jobBatches, asm, grid, mergeCache, mix, timers,
                 queueVars, routeVars>>

\* the engine of call j ends: on 'end' the file is complete, it is registered
\* and its path returned; on 'error' the call throws and what was written of
\* the output stays on disk
SilenceEncoded(j, ok) ==
  /\ unit[j].pc = "sil_encoding"
  /\ LET key == SilenceKey(unit[j].seconds)
         silenceFile == SilencePath(key)
     IN IF ok
        THEN /\ content' = MapPut(content, silenceFile, WavDuration(unit[j].seconds))
             /\ Commit(Resolve([Server EXCEPT
                                  !.fs = fs \cup {silenceFile},
                                  !.SILENCE_CACHE = MapPut(SILENCE_CACHE, key, silenceFile)],
                               j, silenceFile))
        ELSE /\ content' = content
             /\ Commit([Server EXCEPT !.unit[j].pc = "rejected", !.unit[j].err = "silence",
                                      !.settleOrder = Append(settleOrder, j)])
  /\ UNCHANGED <<text, voice, model, phase, blocks, i, chunkFiles, audioChunkCache,
                 mergeInput, finalPath, response, now, jobBatches, asm, grid, mergeCache,
                 mix, timers, queueVars, routeVars>>

SilenceInit ==
  /\ text = <<>>
  /\ voice = ""
  /\ model = ""
  /\ phase = "silence"
  /\ blocks = <<>>
  /\ i = 0
  /\ unit = [j \in 1..MaxCallers |-> IdleCall]
  /\ settleOrder = <<>>
  /\ chunkFiles = <<>>
  /\ audioChunkCache = EmptyMap
  /\ SILENCE_CACHE = EmptyMap
  /\ fs = {}
  /\ ttsCalls = <<>>
  /\ ffmpegRuns = 0
  /\ mergeInput = <<>>
  /\ finalPath = Null
  /\ response = NoResponse
  /\ now = 0
  /\ jobBatches = <<>>
  /\ LaterInit

\* callers of requests in progress at the same time, with pauses of whole
\* seconds and durations next to them
SilenceNext ==
  \/ \E j \in DOMAIN unit, seconds \in SilenceDurations : SilenceCall(j, seconds)
  \/ \E j \in DOMAIN unit : SilenceOpened(j)
  \/ \E j \in DOMAIN unit, ok \in BOOLEAN : SilenceEncoded(j, ok)

SilenceSpec == SilenceInit /\ [][SilenceNext]_vars

\* ------------------------------------------------------------------------
\* The GridFS-backed generateTTS, for texts that chunkText keeps as one chunk
\* of text.  A file name is a base with the stamps put in front of it.
\* ------------------------------------------------------------------------
\* the calls of generateTTS that are followed
MaxGridCalls == 3

\* const fileName = `chunk-${cacheKey}.mp3`
ChunkFileName(cacheKey) == [stamps |-> <<>>, base |-> "chunk", key |-> cacheKey]

\* const uniqueFilename = `${Date.now()}-${filename}`
UniqueFilename(time, filename) == [filename EXCEPT !.stamps = <<time>> \o filename.stamps]

\* gridFSBucket.find({ filename: fileName }).toArray(): the files whose name
\* is fileName
Find(bucket, fileName) == {f \in bucket : f.filename = fileName}

\* `/audio/${id}`
AudioUrl(id) == PathOf("gridfs", <<>>, "", "", id)

\* uploadStream.id: an id that no file of the bucket has
FreshId(bucket) == Cardinality(bucket) + 1

\* generateTTS(text, voice, model) up to the await of gridFSBucket.find
StoreCall(j, t) ==
  /\ unit[j].pc = "idle"
  /\ blocks' = [blocks EXCEPT ![j] = Block(t, 0)]
  /\ LET prior == {k \in DOMAIN unit : unit[k].pc = "resolved" /\ blocks[k].text = t}
     IN unit' = [unit EXCEPT ![j].pc = "find_wait",
                             ![j].prior = IF prior = {} THEN 0 ELSE MinOf(prior)]
  /\ UNCHANGED <<text, voice, model, phase, i, settleOrder, chunkFiles, audioChunkCache,
                 SILENCE_CACHE, fs, ttsCalls, ffmpegRuns, mergeInput, finalPath, response,
                 now, jobBatches, laterVars>>

\* find settles: a file found is returned by its url; with no file found, or
\* when find has thrown (the catch is empty), the synthesis service is called
StoreFound(j, ok) ==
  /\ unit[j].pc = "find_wait"
  /\ LET fileName == ChunkFileName(generateChunkCacheKey(blocks[j].text, voice, model))
         files == Find(gridFSBucket, fileName)
     IN IF ok /\ files # {}
        THEN /\ unit' = [unit EXCEPT ![j].pc = "resolved",
                                      ![j].out = AudioUrl((CHOOSE f \in files : TRUE).id)]
             /\ ttsCalls' = ttsCalls
        ELSE /\ unit' = [unit EXCEPT ![j].pc = "tts_wait", ![j].ext = unit[j].ext + 1,
                                      ![j].err = IF ok THEN "" ELSE "find"]
             /\ ttsCalls' = Append(ttsCalls, [input |-> blocks[j].text, voice |-> voice,
                                               model |-> model])
  /\ UNCHANGED <<text, voice, model, phase, blocks, i, settleOrder, chunkFiles,
                 audioChunkCache, SILENCE_CACHE, fs, ffmpegRuns, mergeInput, finalPath,
                 response, now, jobBatches, laterVars>>

\* uploadToGridFS(buffer, fileName) settles: on 'finish' the file is in the
\* bucket under its unique name and its url is returned
StoreUploaded(j, ok) ==
  /\ unit[j].pc = "write_wait"
  /\ LET fileName == ChunkFileName(generateChunkCacheKey(blocks[j].text, voice, model))
         id == FreshId(gridFSBucket)
     IN IF ok
        THEN /\ gridFSBucket' = gridFSBucket \cup
                                  {[id |-> id, filename |-> UniqueFilename(now, fileName)]}
             /\ unit' = [unit EXCEPT ![j].pc = "resolved", ![j].out = AudioUrl(id)]
        ELSE /\ gridFSBucket' = gridFSBucket
             /\ unit' = [unit EXCEPT ![j].pc = "rejected", ![j].err = "upload"]
  /\ UNCHANGED <<text, voice, model, phase, blocks, i, settleOrder, chunkFiles,
                 audioChunkCache, SILENCE_CACHE, fs, ttsCalls, ffmpegRuns, mergeInput,
                 finalPath, response, now, jobBatches, asm, content, grid, mergeCache, mix,
                 timers, queueVars, expand, Music>>

GridFSInit ==
  /\ text = <<>>
  /\ voice = "alloy"
  /\ model = "tts-1"
  /\ phase = "gridfs"
  /\ blocks = [j \in 1..MaxGridCalls |-> Block(<<>>, 0)]
  /\ i = 0
  /\ unit = [j \in 1..MaxGridCalls |-> IdleCall]
  /\ settleOrder = <<>>
  /\ chunkFiles = <<>>
  /\ audioChunkCache = EmptyMap
  /\ SILENCE_CACHE = EmptyMap
  /\ fs = {}
  /\ ttsCalls = <<>>
  /\ ffmpegRuns = 0
  /\ mergeInput = <<>>
  /\ finalPath = Null
  /\ response = NoResponse
  /\ now = 0
  /\ jobBatches = <<>>
  /\ LaterInit

GridFSNext ==
  \/ \E j \in DOMAIN unit, t \in CacheTexts : StoreCall(j, t)
  \/ \E j \in DOMAIN unit, ok \in BOOLEAN : StoreFound(j, ok)
  \/ \E j \in DOMAIN unit, outcome \in {"audio", "empty", "throw"} : TTSRespond(j, outcome)
  \/ \E j \in DOMAIN unit, ok \in BOOLEAN : StoreUploaded(j, ok)
  \/ Tick

GridFSSpec == GridFSInit /\ [][GridFSNext]_vars

\* ------------------------------------------------------------------------
\* POST /generate of meditationRoutes.js: the first call to the language
\* model, the expansion loop (lines 272-282) and the expandScript that
\* retries (lines 518-590).  A script is followed by its number of words and
\* the seconds of its pause markers.
\* ------------------------------------------------------------------------
\* the attempts of one invocation of expandScript are counted modulo this
MaxAttempts == 3

\* const maxIterations = 3
maxIterations == 3

\* the text a call to the language model returns: its words, the seconds of
\* its pause markers, and how many of its words repeat the word before them
Answers == [words : {20, 60, 130, 260}, pauses : {<<>>, <<15, 15>>}, repeated : {0, 40}]

\* a call to the language model returns a text, returns no content, or throws
LlmOutcomes == [kind : {"invalid", "throw"}] \cup {[kind |-> "text", answer |-> a] : a \in Answers}

\* the durations in minutes that are requested
Durations == {1, 2}

RECURSIVE SumSeq(_)
SumSeq(q) == IF q = <<>> THEN 0 ELSE Head(q) + SumSeq(Tail(q))

\* Math.round(a / b) for a >= 0 and b > 0
RoundDiv(a, b) == (2 * a + b) \div (2 * b)

\* calculateScriptDuration: Math.round(words / (130 / 60) + pauseTime)
calculateScriptDuration(script) == RoundDiv(60 * script.words, 130) + SumSeq(script.pauses)

\* adjustScriptDuration: every pause is scaled by targetDuration * 60 /
\* currentDuration and rounded, and is at least 2 when pauses are shortened
adjustScriptDuration(script, currentDuration, targetDuration) ==
  LET diffSeconds == targetDuration * 60 - currentDuration
      scaled(sec) == RoundDiv(sec * targetDuration * 60, currentDuration)
  IN IF diffSeconds <= 30 /\ diffSeconds >= -30 THEN script
     ELSE IF diffSeconds > 0
     THEN [script EXCEPT !.pauses = [k \in DOMAIN script.pauses |-> scaled(script.pauses[k])]]
     ELSE [script EXCEPT !.pauses = [k \in DOMAIN script.pauses |->
                                        Max(2, scaled(script.pauses[k]))]]

\* the handler after the expansion loop: the final adjustment and the response
Finish(st) ==
  LET scriptDuration == calculateScriptDuration(st.script)
      far == scriptDuration - st.duration * 60 > 30 \/ st.duration * 60 - scriptDuration > 30
  IN [st EXCEPT !.pc = "responded", !.status = 200,
                !.script = IF far THEN adjustScriptDuration(st.script, scriptDuration, st.duration)
                           ELSE st.script]

\* the test of the while loop with what follows it, up to the next await:
\* while (scriptDuration < duration * 60 * 0.9 && iterations < maxIterations)
\* expandScript is called, which calls the language model
ExpansionLoop(st) ==
  IF 10 * calculateScriptDuration(st.script) < 9 * st.duration * 60
     /\ st.iterations < maxIterations
  THEN [st EXCEPT !.pc = "expanding", !.attempt = 0]
  ELSE Finish(st)

ExpandUnchanged ==
  UNCHANGED <<text, voice, model, phase, blocks, i, unit, settleOrder, chunkFiles,
              audioChunkCache, SILENCE_CACHE, fs, ttsCalls, ffmpegRuns, mergeInput,
              finalPath, response, now, jobBatches, asm, content, grid, mergeCache, mix,
              timers, queueVars, gridFSBucket, Music>>

\* the handler of /generate up to its first await; the script cache is empty
Generate(duration, hasFields) ==
  /\ expand.pc = "idle"
  /\ expand' = IF hasFields
               THEN [IdleExpand EXCEPT !.pc = "first_call", !.duration = duration]
               ELSE [IdleExpand EXCEPT !.pc = "responded", !.status = 400]
  /\ ExpandUnchanged

\* the first call to the language model settles
FirstAnswer(outcome) ==
  /\ expand.pc = "first_call"
  /\ expand' = IF outcome.kind # "text"
               THEN [expand EXCEPT !.pc = "responded", !.status = 500]
               ELSE ExpansionLoop([expand EXCEPT
                                     !.script = [words |-> outcome.answer.words,
                                                 pauses |-> outcome.answer.pauses]])
  /\ ExpandUnchanged

\* the call to the language model of expandScript settles: an answer that is
\* not longer than the script makes expandScript call itself with the same
\* arguments; a longer answer is returned without its repeated words
ExpandAnswer(outcome) ==
  /\ expand.pc = "expanding"
  /\ expand' = IF outcome.kind # "text"
               THEN [expand EXCEPT !.pc = "responded", !.status = 500]
               ELSE IF outcome.answer.words <= expand.script.words
               THEN [expand EXCEPT !.attempt = (expand.attempt + 1) % MaxAttempts]
               ELSE ExpansionLoop([expand EXCEPT
                                     !.script = [words |-> outcome.answer.words
                                                           - outcome.answer.repeated,
                                                 pauses |-> outcome.answer.pauses],
                                     !.iterations = expand.iterations + 1])
  /\ ExpandUnchanged

ExpandInit ==
  /\ text = <<>>
  /\ voice = ""
  /\ model = ""
  /\ phase = "generate"
  /\ blocks = <<>>
  /\ i = 0
  /\ unit = <<>>
  /\ settleOrder = <<>>
  /\ chunkFiles = <<>>
  /\ audioChunkCache = EmptyMap
  /\ SILENCE_CACHE = EmptyMap
  /\ fs = {}
  /\ ttsCalls = <<>>
  /\ ffmpegRuns = 0
  /\ mergeInput = <<>>
  /\ finalPath = Null
  /\ response = NoResponse
  /\ now = 0
  /\ jobBatches = <<>>
  /\ LaterInit

ExpandNext ==
  \/ \E duration \in Durations, hasFields \in BOOLEAN : Generate(duration, hasFields)
  \/ \E outcome \in LlmOutcomes : FirstAnswer(outcome)
  \/ \E outcome \in LlmOutcomes : ExpandAnswer(outcome)

ExpandSpec == ExpandInit /\ [][ExpandNext]_vars

\* every call to the language model settles in the end
ExpandFairSpec ==
  /\ ExpandSpec
  /\ WF_vars(\E outcome \in LlmOutcomes : FirstAnswer(outcome))
  /\ WF_vars(\E outcome \in LlmOutcomes : ExpandAnswer(outcome))

\* ------------------------------------------------------------------------
\* The music routes: POST /upload and DELETE /:id, in the two versions of
\* the delete handler (musicRoutes.js and part_000), over the Music
\* collection and the files under public/.
\* ------------------------------------------------------------------------
\* the requests that are made to the music routes
MaxMusicReqs == 2

\* req.user.id of the authenticated users
Users == {"u1", "u2"}

\* the ids a request can name: 0 is the _id of the default track, r the _id
\* of the track that request r uploads, and the last one the _id of the
\* track that was uploaded before the first request
TrackIds == 0..(MaxMusicReqs + 1)

\* the path of a file below public/: its directory, the Date.now() prefix of
\* its name (none for a default file) and the name of the uploaded file
MusicFile(dir, stamps, name) == [dir |-> dir, stamps |-> stamps, name |-> name]

\* url: `/music/${file}` of a default track
DefaultUrl(file) == MusicFile(<<"music">>, <<>>, file)

\* url: `/user-music/${req.user.id}/${Date.now()}-${musicFile.name}`
UserUrl(userId, time, name) == MusicFile(<<"user-music", userId>>, <<time>>, name)

\* the default track that initializeDefaultMusic has created: isDefault true,
\* userId null
DefaultMusic == [id |-> 0, userId |-> "null", isDefault |-> TRUE,
                 url |-> DefaultUrl("calm.mp3")]

\* the track a user has uploaded before the first request, as /upload has
\* stored it
EarlierMusic == [id |-> MaxMusicReqs + 1, userId |-> "u1", isDefault |-> FALSE,
                 url |-> UserUrl("u1", 0, "calm.mp3")]

IdleReq == [pc |-> "idle", kind |-> "", user |-> "", id |-> 0,
            url |-> DefaultUrl(""), status |-> 0]

\* Music.findOne without the owner in its filter
FindOne_anyOwner(records, id, userId) ==
  {m \in records : m.id = id /\ m.isDefault = FALSE}

\* Music.findOne({ _id: req.params.id, userId: req.user.id, isDefault: false })
FindOne(records, id, userId) ==
  {m \in records : m.id = id /\ m.userId = userId /\ m.isDefault = FALSE}

MusicUnchanged ==
  UNCHANGED <<text, voice, model, phase, blocks, i, unit, settleOrder, chunkFiles,
              audioChunkCache, SILENCE_CACHE, fs, ttsCalls, ffmpegRuns, mergeInput,
              finalPath, response, now, jobBatches, asm, content, grid, mergeCache, mix,
              timers, queueVars, gridFSBucket, expand>>

SetReq(r, req) == [Music EXCEPT !.reqs[r] = req]

\* the requests are numbered in the order in which they arrive
Arrives(r) ==
  /\ Music.reqs[r].pc = "idle"
  /\ \A q \in 1..(r - 1) : Music.reqs[q].pc # "idle"

\* POST /upload up to `await musicFile.mv(filePath)`
Upload(r, user, hasFile) ==
  /\ Arrives(r)
  /\ Music' = IF hasFile
              THEN SetReq(r, [IdleReq EXCEPT !.pc = "mv_wait", !.kind = "upload", !.user = user,
                                             !.url = UserUrl(user, now, "calm.mp3")])
              ELSE SetReq(r, [IdleReq EXCEPT !.pc = "done", !.kind = "upload", !.user = user,
                                             !.status = 400])
  /\ MusicUnchanged

\* musicFile.mv settles; `await music.save()` is started
UploadMoved(r, ok) ==
  /\ Music.reqs[r].pc = "mv_wait"
  /\ Music' = IF ok
              THEN [Music EXCEPT !.files = @ \cup {Music.reqs[r].url},
                                 !.reqs[r].pc = "save_wait"]
              ELSE [Music EXCEPT !.reqs[r].pc = "done", !.reqs[r].status = 500]
  /\ MusicUnchanged

\* music.save() settles; the new document has the id of its request
UploadSaved(r, ok) ==
  /\ Music.reqs[r].pc = "save_wait"
  /\ Music' = IF ok
              THEN [Music EXCEPT !.records = @ \cup {[id |-> r, userId |-> Music.reqs[r].user,
                                                      isDefault |-> FALSE,
                                                      url |-> Music.reqs[r].url]},
                                 !.reqs[r].pc = "done", !.reqs[r].status = 200]
              ELSE [Music EXCEPT !.reqs[r].pc = "done", !.reqs[r].status = 500]
  /\ MusicUnchanged

\* DELETE /:id up to `await Music.findOne(...)`
Delete(r, user, id) ==
  /\ Arrives(r)
  /\ Music' = SetReq(r, [IdleReq EXCEPT !.pc = "find_wait", !.kind = "delete", !.user = user,
                                        !.id = id])
  /\ MusicUnchanged

\* findOne settles: 404 when no document matches; otherwise the file is
\* unlinked if it exists and the removal of the document is started.  An
\* unlink that throws is caught in musicRoutes.js and ends the request with
\* 500 in part_000.
DeleteFound(r, ok, unlinked) ==
  LET req == Music.reqs[r]
      found == FindOne(Music.records, req.id, req.user)
      music == CHOOSE m \in found : TRUE
  IN /\ req.pc = "find_wait"
     /\ Music' = IF ~ok
                 THEN [Music EXCEPT !.reqs[r].pc = "done", !.reqs[r].status = 500]
                 ELSE IF found = {}
                 THEN [Music EXCEPT !.reqs[r].pc = "done", !.reqs[r].status = 404]
                 ELSE IF music.url \notin Music.files
                 THEN [Music EXCEPT !.reqs[r].pc = "delete_wait", !.reqs[r].url = music.url]
                 ELSE IF unlinked
                 THEN [Music EXCEPT !.files = @ \ {music.url},
                                    !.reqs[r].pc = "delete_wait", !.reqs[r].url = music.url]
                 ELSE IF Music.version = "musicRoutes"
                 THEN [Music EXCEPT !.reqs[r].pc = "delete_wait", !.reqs[r].url = music.url]
                 ELSE [Music EXCEPT !.reqs[r].pc = "done", !.reqs[r].status = 500]
     /\ MusicUnchanged

\* Music.deleteOne({ _id: req.params.id }) or music.deleteOne() settles
DeleteDone(r, ok) ==
  /\ Music.reqs[r].pc = "delete_wait"
  /\ Music' = IF ok
              THEN [Music EXCEPT !.records = {m \in @ : m.id # Music.reqs[r].id},
                                 !.reqs[r].pc = "done", !.reqs[r].status = 200]
              ELSE [Music EXCEPT !.reqs[r].pc = "done", !.reqs[r].status = 500]
  /\ MusicUnchanged

\* the server after initializeDefaultMusic and one upload: the default track,
\* the track of a user and their files; the router is the one of
\* musicRoutes.js or the one of part_000
MusicInit ==
  /\ text = <<>>
  /\ voice = ""
  /\ model = ""
  /\ phase = "music"
  /\ blocks = <<>>
  /\ i = 0
  /\ unit = <<>>
  /\ settleOrder = <<>>
  /\ chunkFiles = <<>>
  /\ audioChunkCache = EmptyMap
  /\ SILENCE_CACHE = EmptyMap
  /\ fs = {}
  /\ ttsCalls = <<>>
  /\ ffmpegRuns = 0
  /\ mergeInput = <<>>
  /\ finalPath = Null
  /\ response = NoResponse
  /\ now = 0
  /\ jobBatches = <<>>
  /\ asm = <<>>
  /\ content = EmptyMap
  /\ grid = IdleGrid
  /\ mergeCache = EmptyMap
  /\ mix = <<>>
  /\ timers = StartTimers
  /\ QueueIdle
  /\ gridFSBucket = {}
  /\ expand = IdleExpand
  /\ \E version \in {"musicRoutes", "part_000"} :
       Music = [records |-> {DefaultMusic, EarlierMusic},
                files |-> {DefaultMusic.url, EarlierMusic.url},
                reqs |-> [r \in 1..MaxMusicReqs |-> IdleReq], version |-> version]

MusicNext ==
  \/ \E r \in 1..MaxMusicReqs, user \in Users, hasFile \in BOOLEAN : Upload(r, user, hasFile)
  \/ \E r \in 1..MaxMusicReqs, ok \in BOOLEAN : UploadMoved(r, ok)
  \/ \E r \in 1..MaxMusicReqs, ok \in BOOLEAN : UploadSaved(r, ok)
  \/ \E r \in 1..MaxMusicReqs, user \in Users, id \in TrackIds : Delete(r, user, id)
  \/ \E r \in 1..MaxMusicReqs, ok \in BOOLEAN, unlinked \in BOOLEAN : DeleteFound(r, ok, unlinked)
  \/ \E r \in 1..MaxMusicReqs, ok \in BOOLEAN : DeleteDone(r, ok)
  \/ Tick

MusicSpec == MusicInit /\ [][MusicNext]_vars

\* ------------------------------------------------------------------------
\* The queued /generate-audio: the semaphore and the queue of processQueue
\* ------------------------------------------------------------------------
\* const MAX_CONCURRENT = 3 of ttsRoutes.js: the generations allowed at once
MAX_CONCURRENT_GENERATIONS == 3

QueueState(active, q, g) == [activeGenerations |-> active, queue |-> q, gens |-> g]

\* variant of processQueue: the semaphore is not looked at
processQueue_unbounded(st) ==
  IF st.queue = <<>> THEN st
  ELSE QueueState(st.activeGenerations + 1, Tail(st.queue),
                  [st.gens EXCEPT ![Head(st.queue)].pc = "generating"])

\* variant of processQueue: the request that arrived last is taken
processQueue_newest(st) ==
  IF st.activeGenerations >= MAX_CONCURRENT_GENERATIONS \/ st.queue = <<>> THEN st
  ELSE QueueState(st.activeGenerations + 1, SubSeq(st.queue, 1, Len(st.queue) - 1),
                  [st.gens EXCEPT ![st.queue[Len(st.queue)]].pc = "generating"])

\* processQueue up to its await: with a free slot and a request waiting, the
\* oldest request is taken off the queue and its generation started
processQueue(st) ==
  IF st.activeGenerations >= MAX_CONCURRENT_GENERATIONS \/ st.queue = <<>> THEN st
  ELSE QueueState(st.activeGenerations + 1, Tail(st.queue),
                  [st.gens EXCEPT ![Head(st.queue)].pc = "generating"])

SetQueue(st) ==
  /\ activeGenerations' = st.activeGenerations
  /\ queue' = st.queue
  /\ gens' = st.gens

\* the handler of /generate-audio up to its await: without text it answers
\* 400, else it pushes the request and calls processQueue
GenerateAudio(r, hasText) ==
  /\ gens[r].pc = "idle"
  /\ IF ~hasText
     THEN SetQueue(QueueState(activeGenerations, queue,
                              [gens EXCEPT ![r] = [pc |-> "done", status |-> 400]]))
     ELSE SetQueue(processQueue(QueueState(activeGenerations, Append(queue, r),
                                           [gens EXCEPT ![r].pc = "queued"])))
  /\ UNCHANGED <<text, voice, model, phase, blocks, i, unit, settleOrder, chunkFiles,
                 audioChunkCache, SILENCE_CACHE, fs, ttsCalls, ffmpegRuns, mergeInput,
                 finalPath, response, now, jobBatches, asm, content, grid, mergeCache,
                 mix, timers, routeVars>>

\* generateTTS settles: the request is resolved or rejected, and the finally
\* block gives the slot back and calls processQueue
GenerationSettled(r, ok) ==
  /\ gens[r].pc = "generating"
  /\ SetQueue(processQueue(QueueState(activeGenerations - 1, queue,
                                      [gens EXCEPT ![r] = [pc |-> "done",
                                                           status |-> IF ok THEN 200 ELSE 500]])))
  /\ UNCHANGED <<text, voice, model, phase, blocks, i, unit, settleOrder, chunkFiles,
                 audioChunkCache, SILENCE_CACHE, fs, ttsCalls, ffmpegRuns, mergeInput,
                 finalPath, response, now, jobBatches, asm, content, grid, mergeCache,
                 mix, timers, routeVars>>

QueueInit ==
  /\ text = <<>>
  /\ voice = "alloy"
  /\ model = "tts-1"
  /\ phase = "queue"
  /\ blocks = <<>>
  /\ i = 0
  /\ unit = <<>>
  /\ settleOrder = <<>>
  /\ chunkFiles = <<>>
  /\ audioChunkCache = EmptyMap
  /\ SILENCE_CACHE = EmptyMap
  /\ fs = {}
  /\ ttsCalls = <<>>
  /\ ffmpegRuns = 0
  /\ mergeInput = <<>>
  /\ finalPath = Null
  /\ response = NoResponse
  /\ now = 0
  /\ jobBatches = <<>>
  /\ LaterInit

QueueNext ==
  \/ \E r \in GenIds, hasText \in BOOLEAN : GenerateAudio(r, hasText)
  \/ \E r \in GenIds, ok \in BOOLEAN : GenerationSettled(r, ok)

QueueSpec == QueueInit /\ [][QueueNext]_vars

\* every generation returns or throws in the end
QueueFairSpec ==
  QueueSpec /\ \A r \in GenIds : WF_vars(\E ok \in BOOLEAN : GenerationSettled(r, ok))

\* ------------------------------------------------------------------------
\* The filter graphs of /mix-with-music: the duration of the output, in
\* seconds, from the durations of the speech and of the music
\* ------------------------------------------------------------------------
\* longest speech or music track
MaxDuration == 7

\* the length of a stream that does not end
Forever == MaxDuration + 2

\* volume=<gain>: the samples are scaled, the length is kept
Volume(duration) == duration

\* aloop=loop=-1:size=<size>: the first size samples are repeated without end
Aloop(duration, size) == IF duration > 0 /\ size > 0 THEN Forever ELSE duration

\* atrim=0:<end>: the stream is cut at end seconds
Atrim(duration, end) == Min(duration, end)

\* amerge=inputs=2: the output ends with the shorter input
Amerge(a, b) == Min(a, b)

\* amix=inputs=2:duration=longest: the output ends with the longer input
Amix(a, b) == Max(a, b)

\* the complexFilter of the route: [1:a]aloop, [looped]atrim,volume,
\* [0:a]volume, amerge in part_002; [0:a]volume, [1:a]volume, amix in
\* ttsRoutes.js
FilterGraph(route, speech, music) ==
  IF route = "part_002"
  THEN Amerge(Volume(speech), Volume(Atrim(Aloop(music, speech), speech)))
  ELSE Amix(Volume(speech), Volume(music))

IdleGraph(route, speech, music) ==
  [pc |-> "probed", route |-> route, speech |-> speech, music |-> music, duration |-> 0]

\* the probes have returned the two durations
GraphInit ==
  /\ text = <<>>
  /\ voice = ""
  /\ model = ""
  /\ phase = "graph"
  /\ blocks = <<>>
  /\ i = 0
  /\ unit = <<>>
  /\ settleOrder = <<>>
  /\ chunkFiles = <<>>
  /\ audioChunkCache = EmptyMap
  /\ SILENCE_CACHE = EmptyMap
  /\ fs = {}
  /\ ttsCalls = <<>>
  /\ ffmpegRuns = 0
  /\ mergeInput = <<>>
  /\ finalPath = Null
  /\ response = NoResponse
  /\ now = 0
  /\ jobBatches = <<>>
  /\ asm = <<>>
  /\ content = EmptyMap
  /\ grid = IdleGrid
  /\ mergeCache = EmptyMap
  /\ \E route \in {"part_002", "ttsRoutes"}, speech \in 1..MaxDuration,
        music \in 1..MaxDuration :
       mix = <<IdleGraph(route, speech, music)>>
  /\ timers = StartTimers
  /\ QueueIdle
  /\ RoutesIdle

\* the transcoding engine runs the filter graph
GraphRun ==
  /\ phase = "graph"
  /\ mix[1].pc = "probed"
  /\ mix' = <<[mix[1] EXCEPT !.pc = "mixed",
                             !.duration = FilterGraph(mix[1].route, mix[1].speech,
                                                      mix[1].music)]>>
  /\ ffmpegRuns' = ffmpegRuns + 1
  /\ UNCHANGED <<text, voice, model, phase, blocks, i, unit, settleOrder, chunkFiles,
                 audioChunkCache, SILENCE_CACHE, fs, ttsCalls, mergeInput, finalPath,
                 response, now, jobBatches, asm, content, grid, mergeCache, timers, queueVars, routeVars>>

GraphNext == GraphRun

GraphSpec == GraphInit /\ [][GraphNext]_vars

\* ------------------------------------------------------------------------
\* The segmenter alone:parsePlaceholders applied to every script of the bound
\* ------------------------------------------------------------------------
SegInit ==
  /\ text \in SeqsUpTo(SegAlphabet, MaxScriptLen)
  /\ voice = ""
  /\ model = ""
  /\ phase = "seg_input"
  /\ blocks = <<>>
  /\ i = 0
  /\ unit = <<>>
  /\ settleOrder = <<>>
  /\ chunkFiles = <<>>
  /\ audioChunkCache = EmptyMap
  /\ SILENCE_CACHE = EmptyMap
  /\ fs = {}
  /\ ttsCalls = <<>>
  /\ ffmpegRuns = 0
  /\ mergeInput = <<>>
  /\ finalPath = Null
  /\ response = NoResponse
  /\ now = 0
  /\ jobBatches = <<>>
  /\ LaterInit

SegApply ==
  /\ phase = "seg_input"
  /\ blocks' = parsePlaceholders(text)
  /\ phase' = "seg_done"
  /\ UNCHANGED <<text, voice, model, i, unit, settleOrder, chunkFiles, audioChunkCache,
                 SILENCE_CACHE, fs, ttsCalls, ffmpegRuns, mergeInput, finalPath, response,
                 now, jobBatches, laterVars>>

SegNext == SegApply

SegSpec == SegInit /\ [][SegNext]_vars

\* ------------------------------------------------------------------------
\* Properties
\* ------------------------------------------------------------------------
\* the artifact of a block: the chunk file of its text, the silence file of
\* its pause, none for a block with neither
ArtifactOf(block, v, m) ==
  IF block.text # <<>> THEN PathOf("chunk", block.text, v, m, 0)
  ELSE IF block.pause > 0 THEN PathOf("silence", <<>>, "", "", 10 * block.pause)
  ELSE Null

\* the artifacts of the blocks lo..Len(bls) whose call returned a file, in the
\* order of the blocks
RECURSIVE ArtifactsFrom(_, _, _, _, _)
ArtifactsFrom(bls, u, lo, v, m) ==
  IF lo > Len(bls) THEN <<>>
  ELSE (IF u[lo].pc = "resolved" /\ u[lo].out # Null
        THEN <<ArtifactOf(bls[lo], v, m)>> ELSE <<>>)
       \o ArtifactsFrom(bls, u, lo + 1, v, m)

MergeCalled == phase = "merging" \/ mergeInput # <<>>

\* C1: the files handed to mergeChunksEfficiently are exactly the artifacts of
\* the units that produced one, in the order parsePlaceholders emitted the units,
\* whatever the order the calls completed in
C1_AssemblerInputInUnitOrder ==
  MergeCalled =>
    /\ blocks = parsePlaceholders(text)
    /\ mergeInput = ArtifactsFrom(blocks, unit, 1, voice, model)

\* C1 witness: speech then silence were handed over although the silence call
\* of that batch settled before the speech call
C1_Witness ==
  /\ phase = "merging"
  /\ Len(mergeInput) = 2
  /\ mergeInput[1].kind = "chunk"
  /\ mergeInput[2].kind = "silence"
  /\ settleOrder = <<2, 1>>

TtsFailed == {j \in DOMAIN unit : unit[j].pc = "rejected" /\ unit[j].err = "tts"}

Rejected == {j \in DOMAIN unit : unit[j].pc = "rejected"}

\* C2: when the synthesis of exactly one unit has failed and another unit has
\* an artifact to give, the request is not answered before the remaining
\* artifacts were handed to the assembler
C2_OneFailureIsTolerated ==
  (/\ phase = "responded"
   /\ Cardinality(TtsFailed) = 1
   /\ Rejected = TtsFailed
   /\ \E j \in DOMAIN blocks : j \notin TtsFailed /\ ArtifactOf(blocks[j], voice, model) # Null)
  => /\ MergeCalled
     /\ \A j \in DOMAIN unit : j \notin TtsFailed => unit[j].pc = "resolved"

\* C3: when no unit of the request produced an artifact, the request is
\* answered with an error, no artifact URL is returned and no final file written
C3_AllFailedIsFatal ==
  (phase = "responded" /\ \A j \in DOMAIN unit : unit[j].out = Null)
  => /\ response.status >= 400
     /\ response.audioUrl = Null
     /\ \A f \in fs : f.kind # "meditation"

\* C3 witness: every unit of a script of two units returned null and the
\* request was answered 500
C3_Witness ==
  /\ phase = "responded"
  /\ Len(blocks) = 2
  /\ \A j \in DOMAIN unit : unit[j].pc = "resolved" /\ unit[j].out = Null
  /\ response.status = 500

\* C4: a call for a text for which an earlier call had returned a path whose
\* file is on disk returns the same path, and the two calls together make at
\* most one call to the synthesis service
C4_SecondCallServedFromCache ==
  \A j \in DOMAIN unit :
    unit[j].prior # 0 =>
      /\ unit[j].ext + unit[unit[j].prior].ext <= 1
      /\ unit[j].pc = "resolved"
      /\ unit[j].out = unit[unit[j].prior].out

\* C4 witness: the first call synthesized the text, the second returned its path
C4_Witness ==
  \E j \in DOMAIN unit :
    /\ unit[j].prior # 0
    /\ unit[unit[j].prior].ext = 1
    /\ unit[j].pc = "resolved"
    /\ unit[j].out.kind = "chunk"

InFlight == {j \in DOMAIN unit :
               unit[j].pc \in {"tts_wait", "write_wait", "sil_wait", "w_tts_wait", "w_write_wait"}}

\* the batch of a unit: under the batch loop of the route the batches are the
\* slices of MAX_CONCURRENT blocks, under the worker-thread executor they are
\* the batches of processBlocksWithWorkers
BatchNo(j) ==
  IF jobBatches = <<>> THEN (j - 1) \div MAX_CONCURRENT
  ELSE CHOOSE b \in DOMAIN jobBatches : j \in jobBatches[b].lo..jobBatches[b].hi

\* the largest batch an executor makes
ConcurrencyLimit == IF jobBatches = <<>> THEN MAX_CONCURRENT ELSE MaxBatchSize

\* a call that is over: it returned, it threw, or its thread is gone
Over(c) == c.pc \in {"resolved", "rejected", "dead"}

\* C5: a unit is dispatched only when every unit of the earlier batches has
\* settled, and no more units are in flight than the largest batch holds;
\* stated for the batch loop of the route and for the worker-thread executor
C5_BatchesAreSequential ==
  /\ Cardinality(InFlight) <= ConcurrencyLimit
  /\ \A j, u \in DOMAIN unit :
       (unit[j].pc # "idle" /\ BatchNo(u) < BatchNo(j)) => Over(unit[u])

\* a unit of the second batch of the batch loop is in flight
LoopSecondBatchInFlight ==
  /\ phase = "batch"
  /\ i >= MAX_CONCURRENT
  /\ \E j \in InFlight : BatchNo(j) >= 1

\* the decimal digits of n
RECURSIVE ToDigits(_)
ToDigits(n) == IF n < 10 THEN <<n>> ELSE ToDigits(n \div 10) \o <<n % 10>>

\* the value of a digit string
RECURSIVE DecimalValue(_)
DecimalValue(d) == IF d = <<>> THEN 0 ELSE d[1] * 10 ^ (Len(d) - 1) + DecimalValue(Tail(d))

\* the units written back as a script: the text of a speech unit, the marker
\* {{PAUSE_<n>s}} of a silence unit
RECURSIVE Reconstruct(_)
Reconstruct(bls) ==
  IF bls = <<>> THEN <<>>
  ELSE (IF Head(bls).text # <<>>
        THEN [k \in 1..Len(Head(bls).text) |-> Ch(Head(bls).text[k])]
        ELSE <<Marker(ToDigits(Head(bls).pause))>>)
       \o Reconstruct(Tail(bls))

\* a script without the spaces next to its markers, each marker written with
\* the decimal digits of its integer
RECURSIVE TightenFrom(_, _)
TightenFrom(s, k) ==
  IF k > Len(s) THEN <<>>
  ELSE (IF s[k].k = "pause" THEN <<Marker(ToDigits(DecimalValue(s[k].d)))>>
        ELSE IF /\ IsWs(s[k])
                /\ \/ (k > 1 /\ s[k - 1].k = "pause")
                   \/ (k < Len(s) /\ s[k + 1].k = "pause")
             THEN <<>>
             ELSE <<s[k]>>)
       \o TightenFrom(s, k + 1)

Tighten(s) == TightenFrom(s, 1)

\* a script with runs of whitespace collapsed to one space and its ends trimmed
RECURSIVE Collapsed(_, _)
Collapsed(s, k) ==
  IF k > Len(s) THEN <<>>
  ELSE (IF ~IsWs(s[k]) THEN <<s[k]>>
        ELSE IF /\ \E a \in 1..(k - 1) : ~IsWs(s[a])
                /\ \E b \in (k + 1)..Len(s) : ~IsWs(s[b])
                /\ ~IsWs(s[k - 1])
             THEN <<Ch(" ")>>
             ELSE <<>>)
       \o Collapsed(s, k + 1)

WhitespaceNormalized(s) == Collapsed(s, 1)

\* a script with each marker written with the decimal digits of its integer
CanonicalMarkers(s) ==
  [k \in 1..Len(s) |-> IF s[k].k = "pause" THEN Marker(ToDigits(DecimalValue(s[k].d)))
                        ELSE s[k]]

\* C6 as claimed: the units written back as a script are the
\* whitespace-normalized script (a marker standing for its integer)
C6_ReconstructsNormalizedScript ==
  phase = "seg_done" => Reconstruct(blocks) = CanonicalMarkers(WhitespaceNormalized(text))

\* C6: the units written back as a script are the whitespace-normalized script
\* without the spaces next to its markers, each marker written as
\* {{PAUSE_<n>s}} for its integer n
C6_ReconstructsTightenedScript ==
  phase = "seg_done" => Reconstruct(blocks) = Tighten(WhitespaceNormalized(text))

\* C6 witness: a script of speech, marker, speech that normalization changes
\* and whose normalized form keeps a space next to the marker
C6_Witness ==
  /\ phase = "seg_done"
  /\ Len(blocks) = 3
  /\ blocks[1].text # <<>> /\ blocks[2].text = <<>> /\ blocks[3].text # <<>>
  /\ WhitespaceNormalized(text) # text
  /\ Tighten(WhitespaceNormalized(text)) # WhitespaceNormalized(text)

\* C7: no speech unit is longer than MAX_CHUNK_LENGTH
C7_SpeechUnitsWithinMaxLength ==
  phase = "seg_done" => \A j \in DOMAIN blocks : Len(blocks[j].text) <= MAX_CHUNK_LENGTH

\* the units a script must yield, read off the script: the integer of each
\* marker, and -1 for each stretch between markers that holds a character
\* other than whitespace
RECURSIVE ShapeFrom(_, _, _)
ShapeFrom(s, k, inText) ==
  IF k > Len(s) THEN <<>>
  ELSE IF s[k].k = "pause" THEN <<DecimalValue(s[k].d)>> \o ShapeFrom(s, k + 1, FALSE)
  ELSE IF IsWs(s[k]) \/ inText THEN ShapeFrom(s, k + 1, inText)
  ELSE <<-1>> \o ShapeFrom(s, k + 1, TRUE)

UnitShape(bls) == [j \in 1..Len(bls) |-> IF bls[j].text # <<>> THEN -1 ELSE bls[j].pause]

Markers(s) == SelectSeq(s, LAMBDA tok : tok.k = "pause")

\* C8: every marker of the script is one silence unit with the marker's
\* integer, at the marker's position among the units; markers next to each
\* other are one unit each
C8_EveryMarkerIsOneSilenceUnit ==
  phase = "seg_done" => UnitShape(blocks) = ShapeFrom(text, 1, FALSE)

\* C8 witness: a script of nothing but two or more markers, with as many
\* silence units
C8_Witness ==
  /\ phase = "seg_done"
  /\ Len(text) >= 2
  /\ Markers(text) = text
  /\ Len(blocks) = Len(text)
  /\ \A j \in DOMAIN blocks : blocks[j].text = <<>>

\* C9: a request whose script holds a marker with a non-positive integer is
\* answered with an error
C9_NonPositivePauseIsRejected ==
  (phase = "responded" /\ \E k \in DOMAIN text : text[k].k = "pause" /\ DecimalValue(text[k].d) <= 0)
  => response.status >= 400

\* C10: a request whose script is empty after whitespace normalization is
\* answered with a 4xx error, yields no unit and makes no call to the
\* synthesis service or the transcoding engine
C10_EmptyScriptIsClientError ==
  (phase = "responded" /\ WhitespaceNormalized(text) = <<>>)
  => /\ response.status \in 400..499
     /\ blocks = <<>>
     /\ ttsCalls = <<>>
     /\ ffmpegRuns = 0

\* an invocation of the assembler that shares no timestamp-named path with
\* another one
AsmAlone(p) ==
  \A q \in DOMAIN asm :
    q # p => asm[q].outputPath # asm[p].outputPath /\ asm[q].listPath # asm[p].listPath

AsmRunning(p) == asm[p].pc \in {"copy", "list_write", "wav", "mp3"}

\* C13: two invocations that run at the same time have different output paths,
\* different list paths and different intermediate WAV paths
C13_TimestampNamesAreDistinct ==
  \A p, q \in DOMAIN asm :
    (p # q /\ AsmRunning(p) /\ AsmRunning(q))
    => /\ asm[p].outputPath # asm[q].outputPath
       /\ asm[p].listPath # Null => asm[p].listPath # asm[q].listPath
       /\ asm[p].tempWavPath # Null => asm[p].tempWavPath # asm[q].tempWavPath

\* the transient working files of the assemblers: the concat list and the
\* intermediate WAV of mergeChunksEfficiently, the downloaded chunks and the
\* merged output of mergeAudioBuffers
TransientKinds == {"list", "temp_wav", "grid_temp", "grid_merged"}

\* no assembler is between its call and its return
AssemblersAtRest ==
  /\ \A p \in DOMAIN asm : ~AsmRunning(p)
  /\ grid.pc \in {"idle", "returned", "thrown"}
  /\ grid.pending = {}

\* C12: once the assembler has returned, or has thrown because a transcoding
\* step failed, none of its transient working files exists
C12_TransientFilesAreRemoved ==
  (AssemblersAtRest /\ grid.err \in {"", "merge"})
  => \A f \in fs : f.kind \notin TransientKinds

\* the step is a sweep that has run to its end: its timer is set again
ChunkSweepStep == timers'.chunk # timers.chunk
MergeSweepStep == timers'.merge # timers.merge

\* the entries of cache that are older than duration are in no map and on no
\* disk after the step
EvictedAfter(cache, cacheAfter, duration) ==
  \A k \in DOMAIN cache :
    (now - cache[k].timestamp > duration)
    => (k \notin DOMAIN cacheAfter /\ cache[k].path \notin fs')

\* the step is the start of a lookup of the speech-chunk cache, of a mix
LookupStep == Quiet /\ unit' # unit /\ blocks' # <<>>
MixStep(p) == Quiet /\ mix'[p] # mix[p]

\* the key looked up by the step
LookedUp == generateChunkCacheKey(blocks'[1].text, voice, model)

\* the lookup of a key that is in no map is a miss: the synthesis service is
\* called, the probes of the mix are started
FreshMiss ==
  /\ (LookupStep /\ LookedUp \notin DOMAIN audioChunkCache)
     => /\ unit'[1].pc = "tts_wait"
        /\ ttsCalls' = Append(ttsCalls, [input |-> LookedUp.text, voice |-> voice,
                                          model |-> model])
  /\ \A p \in DOMAIN mix :
       (MixStep(p) /\ mix'[p].body \in LiveBodies
          /\ MixCacheKey(mix'[p].body) \notin DOMAIN mergeCache)
       => mix'[p].pc = "probe" /\ mix'[p].probes = 2

\* a synthesis, a mix that succeeds registers an entry of the current time
\* whose file is on disk
RegisteredAnew ==
  /\ (unit # <<>> /\ unit[1].pc = "write_wait" /\ unit'[1].pc = "resolved")
     => LET k == generateChunkCacheKey(blocks[1].text, voice, model)
        IN /\ k \in DOMAIN audioChunkCache'
           /\ audioChunkCache'[k].timestamp = now
           /\ audioChunkCache'[k].path \in fs'
           /\ unit'[1].out = audioChunkCache'[k].path
  /\ \A p \in DOMAIN mix :
       (mix[p].pc = "mp3_wait" /\ mix'[p].response.status = 200)
       => LET k == mix[p].cacheKey
          IN /\ k \in DOMAIN mergeCache'
             /\ mergeCache'[k].timestamp = now
             /\ mergeCache'[k].path \in fs'
             /\ mix'[p].response.mixedAudioUrl = mergeCache'[k].url

ChunkHitStep ==
  LookupStep /\ unit'[1].pc = "resolved" /\ unit'[1].out.kind = "chunk"
MixHitStep(p) == MixStep(p) /\ mix'[p].response.cached

\* C15: the entry a lookup returns as a hit is not older than the retention
\* window of its cache, whether a sweep has run since it expired or not
C15_HitIsWithinRetention ==
  [][/\ ChunkHitStep
        => now - audioChunkCache[LookedUp].timestamp <= CHUNK_CACHE_DURATION
     /\ \A p \in DOMAIN mix :
          MixHitStep(p)
          => now - mergeCache[mix'[p].cacheKey].timestamp <= MERGE_CACHE_DURATION]_vars

\* the entries of cache that are older than duration, the one whose file
\* could not be deleted excepted
LeftBehind(cache, duration) ==
  {k \in DOMAIN cache : /\ now - cache[k].timestamp > duration
                        /\ cache[k].path # timers.thrown}

\* C16: a sweep in which the deletion of one file has thrown has still
\* evicted every other expired entry of its cache
C16_SweepSurvivesFailedDeletion ==
  /\ (timers.thrown # Null /\ timers.thrown.kind = "chunk")
     => LeftBehind(audioChunkCache, CHUNK_CACHE_DURATION) = {}
  /\ (timers.thrown # Null /\ timers.thrown.kind = "merged")
     => LeftBehind(mergeCache, MERGE_CACHE_DURATION) = {}

\* the entries that are in the map before and after the step are the same
EntriesKept(cache, cacheAfter) ==
  \A k \in DOMAIN cache \cap DOMAIN cacheAfter : cacheAfter[k] = cache[k]

\* the step ends a synthesis, a mix: the only steps that register an entry
ChunkRegisterStep == unit # <<>> /\ unit[1].pc = "write_wait"
MergeRegisterStep == \E p \in DOMAIN mix : mix[p].pc = "mp3_wait"

\* C17: a hit leaves its cache as it was, and the timestamp and the path of an
\* entry change only when a new synthesis or a new mix registers the key again
C17_HitLeavesEntryUnchanged ==
  [][/\ ChunkHitStep => audioChunkCache' = audioChunkCache
     /\ (\E p \in DOMAIN mix : MixHitStep(p)) => mergeCache' = mergeCache
     /\ ~ChunkRegisterStep => EntriesKept(audioChunkCache, audioChunkCache')
     /\ ~MergeRegisterStep => EntriesKept(mergeCache, mergeCache')]_vars

\* a lookup and a mix have been answered from entries registered earlier
C17_Witness ==
  /\ unit # <<>>
  /\ unit[1].pc = "resolved" /\ unit[1].ext = 0 /\ unit[1].out.kind = "chunk"
  /\ \E k \in DOMAIN audioChunkCache :
       audioChunkCache[k].path = unit[1].out /\ audioChunkCache[k].timestamp < now
  /\ \E p \in DOMAIN mix :
       /\ mix[p].response.cached
       /\ mix[p].cacheKey \in DOMAIN mergeCache
       /\ mergeCache[mix[p].cacheKey].timestamp < now

\* a duration of hundredths of a second rounded to one decimal place, in
\* tenths: the tenth that is nearest to it
NearestTenth(duration) ==
  CHOOSE k \in 0..(duration \div 10 + 1) : 10 * k - 5 <= duration /\ duration < 10 * k + 5

\* C18: a silence request resolves to the artifact of its duration rounded to
\* one decimal place (2.00 s and 2.04 s to that of 2.0 s, 2.06 s to that of
\* 2.1 s), and no step removes or changes a key of the silence cache
C18_SilenceKeyIsRoundedAndPermanent ==
  [][/\ \A j \in DOMAIN unit' :
          (unit'[j].pc = "resolved" /\ unit'[j].out.kind = "silence")
          => /\ unit'[j].out = SilencePath(NearestTenth(unit'[j].seconds))
             /\ NearestTenth(unit'[j].seconds) \in DOMAIN SILENCE_CACHE'
             /\ unit'[j].seconds \in {200, 204} => unit'[j].out = SilencePath(20)
             /\ unit'[j].seconds = 206 => unit'[j].out = SilencePath(21)
     /\ \A k \in DOMAIN SILENCE_CACHE :
          k \in DOMAIN SILENCE_CACHE' /\ SILENCE_CACHE'[k] = SILENCE_CACHE[k]]_vars

\* a request for 2.04 s has resolved to the artifact of 2.0 s, 2.1 s has an
\* entry of its own, each was generated once, and both sweeps have run
C18_Witness ==
  /\ DOMAIN SILENCE_CACHE = {20, 21}
  /\ unit # <<>>
  /\ unit[1].pc = "resolved" /\ unit[1].seconds = 204 /\ unit[1].out = SilencePath(20)
  /\ ffmpegRuns = 2
  /\ timers.chunk > CHUNK_CACHE_DURATION /\ timers.merge > MERGE_CACHE_DURATION

\* the body names a speech file and a music file
NamesBoth(body) == body.ttsUrl # "" /\ body.musicUrl # ""

\* one of the files the body names is not on disk
FileMissing(body) ==
  PublicPath(body.ttsUrl) \notin fs \/ PublicPath(body.musicUrl) \notin fs

\* the step of request p starts no probe and no transcoding, creates or
\* deletes no file and leaves the merge cache as it was
NoMixWork(p) ==
  /\ mix'[p].pc = "done"
  /\ mix'[p].probes = 0 /\ mix'[p].runs = 0
  /\ ffmpegRuns' = ffmpegRuns
  /\ fs' = fs
  /\ mergeCache' = mergeCache

\* C19: a mix request that names a speech file or a music file that is not
\* on disk is answered 404 with no probe, no transcoding, no file created and
\* the merge cache unchanged
C19_MissingFileIsNotFound ==
  [][\A p \in DOMAIN mix :
       (MixStep(p) /\ NamesBoth(mix'[p].body) /\ FileMissing(mix'[p].body))
       => /\ mix'[p].response = MixResponse(404, Null, FALSE)
          /\ NoMixWork(p)]_vars

\* a request has been answered 404 while the merge cache held an entry
C19_Witness ==
  \E p \in DOMAIN mix :
    /\ mix[p].response.status = 404
    /\ PublicPath(mix[p].body.musicUrl) \notin fs
    /\ DOMAIN mergeCache # {}
    /\ \A k \in DOMAIN mergeCache : mergeCache[k].path \in fs

\* the three values of a body that the merge cache is keyed by
KeyValues(body) ==
  [ttsUrl |-> body.ttsUrl, musicUrl |-> body.musicUrl, volume |-> body.musicVolume]

\* C20: a mix is registered under (ttsUrl, musicUrl, musicVolume) alone, and a
\* request whose three values match an entry whose file is on disk is answered
\* with the url of that entry and cached: true, with no probe and no
\* transcoding, whatever its ttsVolume
C20_MergeKeyIgnoresTtsVolume ==
  [][\A p \in DOMAIN mix :
       /\ (mix[p].pc = "mp3_wait" /\ mix'[p].response.status = 200)
          => KeyValues(mix[p].body) \in DOMAIN mergeCache'
       /\ (/\ MixStep(p)
           /\ NamesBoth(mix'[p].body) /\ ~FileMissing(mix'[p].body)
           /\ KeyValues(mix'[p].body) \in DOMAIN mergeCache
           /\ mergeCache[KeyValues(mix'[p].body)].path \in fs)
          => /\ mix'[p].response
                  = MixResponse(200, mergeCache[KeyValues(mix'[p].body)].url, TRUE)
             /\ NoMixWork(p)]_vars

\* a request has been answered from the cache after one mix only has run
C20_Witness ==
  \E p \in DOMAIN mix :
    /\ mix[p].response.cached
    /\ mix[p].response.mixedAudioUrl = MergedUrl(KeyValues(mix[p].body))
    /\ mix[p].body.ttsVolume = 5
    /\ ffmpegRuns = 2

\* the mix of request p has ended with an error after the transcoding engine
\* had been started
MixEngineFailed(p) ==
  mix[p].pc = "done" /\ mix[p].response.status = 500 /\ mix[p].runs >= 1

\* C21: after a mix whose transcoding failed at either stage, the request has
\* been answered with an error, the key has no entry in the merge cache, no
\* output file is in the public audio directory and the temp WAV is gone
C21_FailedMixLeavesNothing ==
  \A p \in DOMAIN mix :
    MixEngineFailed(p)
    => /\ mix[p].cacheKey \notin DOMAIN mergeCache
       /\ mix[p].outputPath \notin fs
       /\ mix[p].tempWavPath \notin fs

\* C22: the mixed output lasts exactly as long as the speech, whatever the
\* length of the music
C22_MixedDurationIsSpeechDuration ==
  (phase = "graph" /\ mix[1].pc = "mixed") => mix[1].duration = mix[1].speech

\* the files that the entries of the speech-chunk cache and of the silence
\* cache refer to
CachedFiles ==
  {audioChunkCache[k].path : k \in DOMAIN audioChunkCache}
    \cup {SILENCE_CACHE[k] : k \in DOMAIN SILENCE_CACHE}

\* C23: no step of a generate-audio request, its cleanup after the merge
\* included, removes from the disk a file that an entry of the speech-chunk
\* cache or of the silence cache refers to
C23_CleanupKeepsCachedFiles ==
  [][\A f \in CachedFiles : f \in fs => f \in fs']_vars

\* a request has been answered after its cleanup, with entries in both caches
\* whose files are on disk
C23_Witness ==
  /\ phase = "responded" /\ response.status = 200
  /\ DOMAIN audioChunkCache # {} /\ DOMAIN SILENCE_CACHE # {}
  /\ CachedFiles \subseteq fs
  /\ \A k \in DOMAIN chunkFiles : chunkFiles[k] \in CachedFiles

\* C24: every call made to the synthesis service carries the text of a unit of
\* the request and the voice and the model of the request
C24_SynthesisCallCarriesRequestVoice ==
  \A c \in DOMAIN ttsCalls :
    /\ \E j \in DOMAIN blocks : blocks[j].text = ttsCalls[c].input
    /\ ttsCalls[c].voice = voice
    /\ ttsCalls[c].model = model

\* processBlocksWithWorkers has returned its sequence to the job
JobReturned ==
  /\ phase \in {"job_merging", "job_hung", "job_crashed", "job_failed"}
  /\ \A b \in DOMAIN jobBatches : jobBatches[b].promise = "resolved"

\* C25: the sequence that processBlocksWithWorkers returns has one element
\* for every block, and its j-th element is what the call for block j returned
C25_WorkerResultsFollowBlocks ==
  JobReturned
  => /\ Len(chunkFiles) = Len(blocks)
     /\ \A j \in DOMAIN blocks :
          /\ j \in DOMAIN chunkFiles
          /\ unit[j].pc = "resolved"
          /\ chunkFiles[j] = unit[j].out

\* C26: the call for a silence unit with a positive pause, once it has
\* returned, has returned the silence artifact of that pause, and that
\* artifact stands in the files handed to the assembler
C26_SilenceUnitYieldsArtifact ==
  \A j \in DOMAIN blocks :
    (/\ blocks[j].text = <<>> /\ blocks[j].pause > 0
     /\ j \in DOMAIN unit /\ unit[j].pc = "resolved")
    => /\ unit[j].out.kind = "silence"
       /\ unit[j].out.n = 10 * blocks[j].pause
       /\ mergeInput # <<>> => \E k \in DOMAIN mergeInput : mergeInput[k] = unit[j].out

\* request q ends its WAV-to-MP3 stage with success, and so has written its
\* output file, in this step
MixWrites(q) == mix[q].pc = "mp3_wait" /\ mix'[q].pc = "done" /\ mix'[q].response.status = 200

MixReturned(p) == mix[p].pc = "done" /\ mix[p].response.status = 200

\* C27: of two overlapping mix requests with the same cache key, both answered
\* with success, both carry the same url and the map holds one entry for the
\* key, the one of the later writer; and no mix writes the file of a url that
\* another request has already returned
C27_OverlappingMixesLeaveReturnedFileAlone ==
  [][\A p \in DOMAIN mix, q \in DOMAIN mix :
       /\ (MixReturned(p) /\ MixReturned(q) /\ mix[p].cacheKey = mix[q].cacheKey)
          => mix[p].response.mixedAudioUrl = mix[q].response.mixedAudioUrl
       /\ (p # q /\ MixReturned(p) /\ MixWrites(q))
          => /\ mix[q].cacheKey \in DOMAIN mergeCache'
             /\ mergeCache'[mix[q].cacheKey].timestamp = now
             /\ mix[q].outputPath # MergedPath(mix[p].cacheKey)]_vars

\* the positions of a period or comma at or before the threshold
Boundaries(t) == {k \in 1..MAX_CHUNK_LENGTH : k <= Len(t) /\ t[k] \in {".", ","}}

\* where a text longer than the threshold is to be cut: after its last
\* boundary character at or before the threshold, at the threshold when it
\* has none there
CutPoint(t) ==
  IF Boundaries(t) = {} THEN MAX_CHUNK_LENGTH
  ELSE CHOOSE k \in Boundaries(t) : \A other \in Boundaries(t) : other <= k

\* C28: a script without markers whose text is longer than the threshold has
\* as its first unit the text up to its last period or comma at or before the
\* threshold, and the text up to the threshold when there is neither
C28_SplitsAtLastBoundary ==
  LET t == Chars(Trim(NormalizeWs(text)))
  IN (phase = "seg_done" /\ Markers(text) = <<>> /\ Len(t) > MAX_CHUNK_LENGTH)
     => /\ blocks # <<>>
        /\ blocks[1].text = SubSeq(t, 1, CutPoint(t))

\* the units of the request whose call returned null
DroppedUnits == {j \in DOMAIN unit : unit[j].pc = "resolved" /\ unit[j].out = Null}

\* the fields of the response that are counts
CountFields == DOMAIN response \ {"status", "audioUrl"}

\* C29: a response of success to a request of which units were dropped holds
\* their number in a field other than cached and chunksProcessed, and
\* chunksProcessed less that number is the number of files assembled
C29_ResponseCountsDroppedUnits ==
  (response.status = 200 /\ DroppedUnits # {})
  => /\ \E f \in CountFields \ {"cached", "chunksProcessed"} :
          response[f] = Cardinality(DroppedUnits)
     /\ response.chunksProcessed - Cardinality(DroppedUnits) = Len(mergeInput)

\* the generations in progress
Generating == {r \in DOMAIN gens : gens[r].pc = "generating"}

\* C30: activeGenerations is within 0..MAX_CONCURRENT, it is the number of
\* generations in progress, and while a request waits in the queue every
\* slot is taken
C30_SemaphoreCountsGenerations ==
  /\ activeGenerations \in 0..MAX_CONCURRENT_GENERATIONS
  /\ activeGenerations = Cardinality(Generating)
  /\ queue # <<>> => activeGenerations = MAX_CONCURRENT_GENERATIONS

\* a request waits although a generation has ended: its slot was handed on
C30_Witness ==
  /\ queue # <<>>
  /\ \E r \in DOMAIN gens : gens[r].pc = "done" /\ gens[r].status \in {200, 500}
  /\ activeGenerations = MAX_CONCURRENT_GENERATIONS

\* request r is started in this step
Started(r) == gens[r].pc \in {"idle", "queued"} /\ gens'[r].pc = "generating"

\* the promise of request r is settled in this step
Settled(r) == gens[r].pc # "done" /\ gens'[r].pc = "done"

\* a request that arrives goes to the end of the queue, or is started at
\* once when none waits; a request that is started is the oldest that waits
FifoStep ==
  \A r \in DOMAIN gens :
    /\ (gens[r].pc = "idle" /\ gens'[r].pc = "queued") => queue' = Append(queue, r)
    /\ Started(r) => IF queue = <<>> THEN gens[r].pc = "idle" /\ queue' = <<>>
                      ELSE r = Head(queue) /\ queue' = Tail(queue)

\* a settled promise stays as it is; a promise is settled by the end of its
\* own generation alone, one per step, with the outcome of that generation;
\* and the slot of a generation that ends is handed to the oldest that waits
SettleStep ==
  \A r \in DOMAIN gens :
    /\ gens[r].pc = "done" => gens'[r] = gens[r]
    /\ (Settled(r) /\ gens'[r].status # 400)
       => /\ gens[r].pc = "generating"
          /\ gens'[r].status \in {200, 500}
          /\ \A other \in DOMAIN gens \ {r} : ~Settled(other)
          /\ activeGenerations' = Cardinality({g \in DOMAIN gens : gens'[g].pc = "generating"})
          /\ queue # <<>> => gens'[Head(queue)].pc = "generating"

\* C31: with every generation returning or throwing in the end, every request
\* that waits in the queue is started; requests are started in the order of
\* their arrival; each promise is settled once, by its own generation; a
\* generation that fails gives its slot back and rejects no other request
C31_QueueIsFairAndFifo ==
  /\ \A r \in GenIds : (gens[r].pc = "queued") ~> (gens[r].pc \in {"generating", "done"})
  /\ \A r \in GenIds : (gens[r].pc = "generating") ~> (gens[r].pc = "done")
  /\ [][FifoStep /\ SettleStep]_vars

\* every request had a text and has been started, so the later ones have
\* waited, and a generation has failed
C31_Witness ==
  /\ \A r \in DOMAIN gens : gens[r].pc \in {"generating", "done"} /\ gens[r].status # 400
  /\ \E r \in DOMAIN gens : gens[r].status = 500
  /\ Cardinality(DOMAIN gens) > MAX_CONCURRENT_GENERATIONS

\* the files that the calls of the request have taken from the speech-chunk
\* cache: a path returned without a call to the synthesis service
FromChunkCache ==
  {unit[j].out : j \in {u \in DOMAIN unit : /\ unit[u].pc = "resolved"
                                            /\ unit[u].out.kind = "chunk"
                                            /\ unit[u].ext = 0}}

\* C32: when the assembler is called, every file that the request has taken
\* from the speech-chunk cache and hands to it is on disk
C32_SweepSparesCollectedFiles ==
  [][(phase # "merging" /\ phase' = "merging")
     => \A k \in DOMAIN mergeInput' :
          mergeInput'[k] \in FromChunkCache' => mergeInput'[k] \in fs']_vars

\* the silence files that the transcoding engine of a call is writing
BeingEncoded ==
  {SilencePath(SilenceKey(unit[j].seconds)) : j \in {u \in DOMAIN unit : unit[u].pc = "sil_wait"}}

\* C33: no call of getOrCreateSilence has returned, and SILENCE_CACHE does
\* not hold, the path of a silence file that the transcoding engine of
\* another call is still writing
C33_NoSilencePathWhileEncoding ==
  /\ \A j \in DOMAIN unit :
       (unit[j].pc = "resolved" /\ unit[j].out.kind = "silence") => unit[j].out \notin BeingEncoded
  /\ \A key \in DOMAIN SILENCE_CACHE : SILENCE_CACHE[key] \notin BeingEncoded

\* the keys whose entry of the speech-chunk cache is set in this step
ChunkKeysSet ==
  {key \in DOMAIN audioChunkCache' :
     IF key \in DOMAIN audioChunkCache THEN audioChunkCache'[key] # audioChunkCache[key]
     ELSE TRUE}

\* the write of call j ends with success in this step
Wrote(j) == unit[j].pc = "write_wait" /\ unit'[j].pc = "resolved"

\* the synthesis or the write of call j fails in this step
CallFailed(j) == unit[j].pc \in {"tts_wait", "write_wait"} /\ unit'[j].pc = "rejected"

\* C34: an entry of the speech-chunk cache is set only in the step in which
\* the write of the file it points to has ended with success, the file being
\* on disk; a synthesis or a write that fails leaves the map as it was
C34_EntryFollowsFinishedWrite ==
  [][/\ \A key \in ChunkKeysSet :
          /\ audioChunkCache'[key].path \in fs'
          /\ \E j \in DOMAIN unit :
               /\ Wrote(j)
               /\ key = generateChunkCacheKey(blocks[j].text, voice, model)
               /\ audioChunkCache'[key].path = unit'[j].out
     /\ \A j \in DOMAIN unit \cap DOMAIN unit' :
          CallFailed(j) => audioChunkCache' = audioChunkCache]_vars

\* the cache holds the entry of an earlier call and the write of the current
\* call has failed
C34_Witness ==
  /\ DOMAIN audioChunkCache # {}
  /\ \E j \in DOMAIN unit : unit[j].pc = "rejected" /\ unit[j].err = "write"
  /\ \A key \in DOMAIN audioChunkCache : audioChunkCache[key].path \in fs

\* getOrCreateSilence returns to caller j in this step
SilenceReturned(j) == unit[j].pc # "resolved" /\ unit'[j].pc = "resolved"

Distance(a, b) == IF a < b THEN b - a ELSE a - b

\* C35: the silence file that getOrCreateSilence returns holds, when it is
\* returned, audio of exactly the requested length if that is a whole number
\* of seconds, and of a length less than 0.1 s from the requested one in
\* every case
C35_SilenceHasRequestedDuration ==
  [][\A j \in DOMAIN unit \cap DOMAIN unit' :
       SilenceReturned(j)
       => LET held == content'[unit'[j].out]
              asked == unit'[j].seconds
          IN /\ asked % 100 = 0 => held = asked
             /\ Distance(held, asked) < 10]_vars

\* C36: a call of generateTTS that is made after a call for the same text,
\* voice and model has stored its chunk and returned, and whose find does not
\* throw, returns the url of a stored chunk of that text without a call to
\* the synthesis service
C36_StoredChunkIsFound ==
  [][\A j \in DOMAIN unit :
       (unit[j].pc = "find_wait" /\ unit[j].prior # 0 /\ unit'[j].err # "find")
       => /\ unit'[j].pc = "resolved"
          /\ ttsCalls' = ttsCalls
          /\ \E f \in gridFSBucket :
               /\ unit'[j].out = AudioUrl(f.id)
               /\ f.filename.key = generateChunkCacheKey(blocks[j].text, voice, model)]_vars

\* expandScript is running in iteration n of the expansion loop
Expanding(n) == expand.pc = "expanding" /\ expand.iterations = n

\* C37: with every call to the language model settling in the end, every
\* invocation of expandScript ends, and the expansion loop makes at most
\* maxIterations iterations
C37_ExpansionTerminates ==
  /\ [](expand.iterations <= maxIterations)
  /\ \A n \in 0..maxIterations : Expanding(n) ~> ~Expanding(n)

\* request r takes a step of DELETE /:id made by the user who owns m, and m
\* is not default music
OwnDelete(r, m) ==
  /\ Music'.reqs[r] # Music.reqs[r]
  /\ Music.reqs[r].kind = "delete"
  /\ Music.reqs[r].user = m.userId
  /\ ~m.isDefault

\* request r is answered 404 in this step
Refused(r) == Music.reqs[r].pc = "find_wait" /\ Music'.reqs[r].status = 404

\* what a step removes, it removes for a DELETE of the owner
RemovesOnlyOwn ==
  /\ \A m \in Music.records :
       (m \notin Music'.records \/ (m.url \in Music.files /\ m.url \notin Music'.files))
       => \E r \in DOMAIN Music.reqs : OwnDelete(r, m)
  /\ \A f \in Music.files \ Music'.files : \E m \in Music.records : m.url = f
  /\ \A r \in DOMAIN Music.reqs :
       Refused(r) => Music'.records = Music.records /\ Music'.files = Music.files

\* C38: a music record is removed, and the file of a record is removed, only
\* by a DELETE of the user the record belongs to and only if the record is
\* not default music; a DELETE that is refused leaves the records and the
\* files as they are
C38_DeleteOnlyOwnMusic == [][RemovesOnlyOwn]_vars

\* the track that a user had uploaded is gone with its file after a DELETE
\* by that user, a DELETE of the same track by the other user has been
\* refused, and the default track and its file are still there
C38_Witness ==
  \E a, c \in DOMAIN Music.reqs :
    /\ Music.reqs[c].kind = "delete" /\ Music.reqs[c].status = 404
    /\ Music.reqs[c].id = EarlierMusic.id /\ Music.reqs[c].user # EarlierMusic.userId
    /\ Music.reqs[a].kind = "delete" /\ Music.reqs[a].status = 200
    /\ Music.reqs[a].id = EarlierMusic.id /\ Music.reqs[a].user = EarlierMusic.userId
    /\ EarlierMusic \notin Music.records /\ EarlierMusic.url \notin Music.files
    /\ DefaultMusic \in Music.records /\ DefaultMusic.url \in Music.files

====
